---- MODULE Spec2Model ----
(***************************************************************************)
(* Contexts (key list + var list), the Binding Table and the Collection    *)
(* Buffer of src/core/c-frame.c, as a state machine over a small heap.     *)
(*                                                                         *)
(* A context is identified by the index of its var list in `ctxs`; a key   *)
(* list by its index in `kls`.  Sequences are 1-based, so slot n of the C  *)
(* arrays (slot 0 = rootvar / rootkey) is element n + 1 here.              *)
(***************************************************************************)
EXTENDS Integers, Sequences, FiniteSets, TLC

VARIABLES ctxs, kls, binds, buf, hist, last, nops, budget, array, series

vars == <<ctxs, kls, binds, buf, hist, last, nops, budget, array, series>>

\* ------------------------------------------------------------------ bounds
\* operations performed after Init in the specifications below
MaxOps == 2
\* operations performed in SpecAppend, which starts from the empty heap
MaxAppendOps == 4
\* collection passes performed in SpecCollect
MaxCollectOps == 2
\* largest delta / extra handed to Expand_Context, Copy_Context_Shallow_Extra
MaxDelta == 2
\* operations on an array per behaviour, cells of a start array, dup count
MaxModifyOps == 1
MaxArrLen == 3
MaxDups == 2
MaxGcOps == 1
MaxQuoteDepth == 1
\* operations performed in SpecShare
MaxShareOps == 3

\* ----------------------------------------------------------------- symbols
SYM_0 == 0
SYM_SELF == 1
UserSyms == 2 .. 5
Syms == {SYM_SELF} \cup UserSyms
AllSyms == {SYM_0} \cup Syms

\* symbol 5 is a case variant of symbol 2; every other symbol is canonical
SYMBOL_TO_CANON(sym) == IF sym = 5 THEN 2 ELSE sym

\* ------------------------------------------------------------------ values
Kinds == {"object", "error"}

MkVal(t, kind, n, ref) == [t |-> t, kind |-> kind, n |-> n, ref |-> ref]
VOID_VALUE == MkVal("void", "", 0, 0)
BLANK_VALUE == MkVal("blank", "", 0, 0)
IntVal(n) == MkVal("integer", "", n, 0)
BlockVal(ser, n) == MkVal("block", "", n, ser)
\* an ANY-CONTEXT! cell: header kind + payload.any_context.varlist
CtxVal(kind, c) == MkVal("context", kind, 0, c)
\* the rootvar as Alloc_Context leaves it: trash header, varlist pointer set
TrashRootvar(c) == MkVal("trash", "", 0, c)

IS_VOID(v) == v.t = "void"
ANY_CONTEXT(v) == v.t = "context"

\* -------------------------------------------------------------------- keys
ALL_64 == "ALL_64"
TS_NO_VOID == "ALL_BUT_REB_0"

Val_Init_Typeset(bits, sym) ==
    [sym |-> sym, bits |-> bits,
     hidden |-> FALSE, locked |-> FALSE, lookback |-> FALSE]

VAL_TYPESET_SYM(key) == key.sym
VAL_TYPESET_CANON(key) == SYMBOL_TO_CANON(key.sym)

\* ------------------------------------------------------------------- words
NULL == 0
NoWord == [wt |-> "null", sym |-> SYM_0, bound |-> FALSE, ctx |-> NULL,
           index |-> 0]
MkWord(wt, sym) == [wt |-> wt, sym |-> sym, bound |-> FALSE, ctx |-> NULL,
                    index |-> 0]

\* -------------------------------------------------------------------- heap
\* H = [ctxs |-> Seq([vars, keylist]), kls |-> Seq([keys, shared, meta])]
CTX_VARLIST(H, c) == H.ctxs[c].vars
CTX_KEYLIST(H, c) == H.ctxs[c].keylist
CTX_KEYS(H, c) == H.kls[H.ctxs[c].keylist].keys
CTX_LEN(H, c) == Len(H.ctxs[c].vars) - 1
CTX_VALUE(H, c) == H.ctxs[c].vars[1]
CTX_VAR(H, c, n) == H.ctxs[c].vars[n + 1]
CTX_KEY(H, c, n) == H.kls[H.ctxs[c].keylist].keys[n + 1]
CTX_TYPE(H, c) == H.ctxs[c].vars[1].kind
CTX_META(H, c) == H.kls[H.ctxs[c].keylist].meta


\* INIT_CTX_KEYLIST_SHARED: link the key list and flag it as shared
INIT_CTX_KEYLIST_SHARED(H, c, k) ==
    [H EXCEPT !.ctxs[c].keylist = k, !.kls[k].shared = TRUE]

\* INIT_CTX_KEYLIST_UNIQUE: link the key list, flags untouched
INIT_CTX_KEYLIST_UNIQUE(H, c, k) == [H EXCEPT !.ctxs[c].keylist = k]

\* INIT_CONTEXT_META: the meta pointer lives on the context's key list
INIT_CONTEXT_META(H, c, meta) ==
    [H EXCEPT !.kls[H.ctxs[c].keylist].meta = meta]

\* a new array node holding `keys`; a fresh node has no flags and no meta
NewKeylist(H, keys, meta) ==
    [H EXCEPT !.kls = Append(@, [keys |-> keys, shared |-> FALSE,
                                 meta |-> meta])]

NewVarlist(H, vs, k) ==
    [H EXCEPT !.ctxs = Append(@, [vars |-> vs, keylist |-> k])]

\* ------------------------------------------------------ Alloc_Context
\* The result is the context Len(H.ctxs) + 1.
Alloc_Context(H, len) ==
    LET c == Len(H.ctxs) + 1
        k == Len(H.kls) + 1
        H1 == NewKeylist(H, <<Val_Init_Typeset(ALL_64, SYM_0)>>, NULL)
    IN  NewVarlist(H1, <<TrashRootvar(c)>>, k)

\* ------------------------------------------- Expand_Context_Keylist_Core
\* as Expand_Context_Keylist_Core, but the copy does not get the meta object
Expand_Context_Keylist_Core_DropsMeta(H, c, delta) ==
    IF delta = 0 THEN [H |-> H, ret |-> FALSE]
    ELSE LET keylist == CTX_KEYLIST(H, c) IN
         IF H.kls[keylist].shared
         THEN LET k == Len(H.kls) + 1
                  H1 == NewKeylist(H, H.kls[keylist].keys, NULL)
              IN  [H |-> INIT_CTX_KEYLIST_UNIQUE(H1, c, k), ret |-> TRUE]
         ELSE [H |-> H, ret |-> FALSE]

Expand_Context_Keylist_Core(H, c, delta) ==
    IF delta = 0 THEN [H |-> H, ret |-> FALSE]
    ELSE LET keylist == CTX_KEYLIST(H, c) IN
         IF H.kls[keylist].shared
         THEN LET meta == H.kls[keylist].meta
                  k == Len(H.kls) + 1
                  H1 == NewKeylist(H, H.kls[keylist].keys, meta)
              IN  [H |-> INIT_CTX_KEYLIST_UNIQUE(H1, c, k), ret |-> TRUE]
         ELSE [H |-> H, ret |-> FALSE]

Ensure_Keylist_Unique_Invalidated(H, c) ==
    Expand_Context_Keylist_Core(H, c, 0)

\* Extend_Series adds capacity, never length: the var list keeps its values
Expand_Context(H, c, delta) == Expand_Context_Keylist_Core(H, c, delta).H

\* ---------------------------------------------------- Append_Context_Core
\* as Append_Context_Core, but the lookback flag is never set on the key
Append_Context_Core_NoLookback(H, c, word, sym, lookahead) ==
    LET keylist == CTX_KEYLIST(H, c)
        key == Val_Init_Typeset(
                   ALL_64, IF word.wt # "null" THEN word.sym ELSE sym)
        H1 == [H EXCEPT !.kls[keylist].keys = Append(@, key)]
        H2 == [H1 EXCEPT !.ctxs[c].vars = Append(@, VOID_VALUE)]
        len == CTX_LEN(H2, c)
    IN  [H |-> H2,
         slot |-> len,
         word |-> IF word.wt # "null"
                  THEN [word EXCEPT !.bound = TRUE, !.ctx = c, !.index = len]
                  ELSE word]

\* Returns the heap, the index of the new var slot and the (bound) word.
Append_Context_Core(H, c, word, sym, lookahead) ==
    LET keylist == CTX_KEYLIST(H, c)
        key0 == Val_Init_Typeset(
                    ALL_64, IF word.wt # "null" THEN word.sym ELSE sym)
        key == [key0 EXCEPT !.lookback = lookahead]
        H1 == [H EXCEPT !.kls[keylist].keys = Append(@, key)]
        H2 == [H1 EXCEPT !.ctxs[c].vars = Append(@, VOID_VALUE)]
        len == CTX_LEN(H2, c)
    IN  [H |-> H2,
         slot |-> len,
         word |-> IF word.wt # "null"
                  THEN [word EXCEPT !.bound = TRUE, !.ctx = c, !.index = len]
                  ELSE word]

\* ---------------------------------------------- Copy_Context_Shallow_Extra
\* as Copy_Context_Shallow_Extra, but the copied rootvar is left pointing at
\* the source's var list
Copy_Context_Shallow_Extra_KeepsRootvar(H, src, extra) ==
    LET meta == CTX_META(H, src)
        dest == Len(H.ctxs) + 1
        H1 == IF extra = 0
              THEN INIT_CTX_KEYLIST_SHARED(
                       NewVarlist(H, CTX_VARLIST(H, src), CTX_KEYLIST(H, src)),
                       dest, CTX_KEYLIST(H, src))
              ELSE LET k == Len(H.kls) + 1
                       Hk == NewKeylist(H, CTX_KEYS(H, src), NULL)
                   IN  INIT_CTX_KEYLIST_UNIQUE(
                           NewVarlist(Hk, CTX_VARLIST(H, src), k), dest, k)
    IN  INIT_CONTEXT_META(H1, dest, meta)

\* The result is the context Len(H.ctxs) + 1.
Copy_Context_Shallow_Extra(H, src, extra) ==
    LET meta == CTX_META(H, src)
        dest == Len(H.ctxs) + 1
        H1 == IF extra = 0
              THEN INIT_CTX_KEYLIST_SHARED(
                       NewVarlist(H, CTX_VARLIST(H, src), CTX_KEYLIST(H, src)),
                       dest, CTX_KEYLIST(H, src))
              ELSE LET k == Len(H.kls) + 1
                       Hk == NewKeylist(H, CTX_KEYS(H, src), NULL)
                   IN  INIT_CTX_KEYLIST_UNIQUE(
                           NewVarlist(Hk, CTX_VARLIST(H, src), k), dest, k)
        H2 == [H1 EXCEPT !.ctxs[dest].vars[1].ref = dest]
    IN  INIT_CONTEXT_META(H2, dest, meta)

\* ----------------------------------------------------- Find_Word_In_Context
\* as FindWordFrom, but a hidden key is found whatever `always` is
RECURSIVE FindWordFrom_SeesHidden(_, _, _, _, _, _)
FindWordFrom_SeesHidden(keys, len, n, sym, canon, always) ==
    IF n > len THEN 0
    ELSE IF sym = VAL_TYPESET_SYM(keys[n + 1])
            \/ canon = VAL_TYPESET_CANON(keys[n + 1])
         THEN n
         ELSE FindWordFrom_SeesHidden(keys, len, n + 1, sym, canon, always)

RECURSIVE FindWordFrom(_, _, _, _, _, _)
FindWordFrom(keys, len, n, sym, canon, always) ==
    IF n > len THEN 0
    ELSE IF sym = VAL_TYPESET_SYM(keys[n + 1])
            \/ canon = VAL_TYPESET_CANON(keys[n + 1])
         THEN (IF ~always /\ keys[n + 1].hidden THEN 0 ELSE n)
         ELSE FindWordFrom(keys, len, n + 1, sym, canon, always)

Find_Word_In_Context(H, context, sym, always) ==
    FindWordFrom(CTX_KEYS(H, context), CTX_LEN(H, context), 1, sym,
                 SYMBOL_TO_CANON(sym), always)

\* ---------------------------------------------------------- Find_Word_Value
\* The index of the var slot returned, NULL (0) for a null pointer.
Find_Word_Value(H, context, sym) ==
    IF context = NULL THEN NULL
    ELSE Find_Word_In_Context(H, context, sym, FALSE)

\* ------------------------------------------------------ items of a block
\* A block is a sequence of items; `sub` is the content of a nested block.
MkItem(it, sym, sub) == [it |-> it, sym |-> sym, sub |-> sub]
Word(sym) == MkItem("word", sym, <<>>)
SetWord(sym) == MkItem("set-word", sym, <<>>)
GetWord(sym) == MkItem("get-word", sym, <<>>)
IntItem(n) == MkItem("integer", n, <<>>)
Block(sub) == MkItem("block", SYM_0, sub)

ANY_WORD(v) == v.it \in {"word", "set-word", "get-word", "lit-word"}
IS_WORD(v) == v.it = "word"
IS_SET_WORD(v) == v.it = "set-word"
ANY_EVAL_BLOCK(v) == v.it \in {"block", "group"}
VAL_WORD_SYM(v) == v.sym
VAL_WORD_CANON(v) == SYMBOL_TO_CANON(v.sym)

\* ------------------------------------- Binding Table, Collection Buffer
\* C = [binds |-> [canon -> Int], buf |-> Seq(cell)]; Len(buf) is
\* ARR_LEN(BUF_COLLECT) and buf[n + 1] the cell at index n.
COLLECT_ANY_WORD == "COLLECT_ANY_WORD"
COLLECT_DEEP == "COLLECT_DEEP"
COLLECT_NO_DUP == "COLLECT_NO_DUP"
COLLECT_ENSURE_SELF == "COLLECT_ENSURE_SELF"
COLLECT_ONLY_SET_WORDS == "COLLECT_ONLY_SET_WORDS"

ZeroBinds == [s \in AllSyms |-> 0]
BindTableEmpty(b) == \A s \in AllSyms : b[s] = 0

RECURSIVE CellCanons(_)
CellCanons(cells) ==
    IF cells = <<>> THEN {}
    ELSE {SYMBOL_TO_CANON(Head(cells).sym)} \cup CellCanons(Tail(cells))

\* `binds[canon] = 0` for every symbol in S
ZeroAll(b, S) == [s \in AllSyms |-> IF s \in S THEN 0 ELSE b[s]]

Collect_Keys_Start(C) ==
    [C EXCEPT !.buf = <<Val_Init_Typeset(ALL_64, SYM_0)>>]

\* as Collect_Keys_End, but the buffer is emptied without the reset loop
Collect_Keys_End_NoReset(C) == [C EXCEPT !.buf = <<>>]

\* TERM_ARRAY first, so the reset loop visits exactly the live cells
Collect_Keys_End(C) ==
    [C EXCEPT !.binds = ZeroAll(C.binds, CellCanons(C.buf)), !.buf = <<>>]

\* ---------------------------------------------------- Collect_Context_Keys
RECURSIVE CollectKeysCheckDups(_, _)
CollectKeysCheckDups(C, keys) ==
    IF keys = <<>> THEN C
    ELSE LET key == Head(keys)
             canon == VAL_TYPESET_CANON(key)
         IN  IF C.binds[canon] # 0
             THEN CollectKeysCheckDups(C, Tail(keys))
             ELSE CollectKeysCheckDups(
                      [C EXCEPT !.binds[canon] = Len(C.buf),
                                !.buf = Append(C.buf, key)],
                      Tail(keys))

RECURSIVE BindKeysFrom(_, _, _)
BindKeysFrom(b, keys, bind_index) ==
    IF keys = <<>> THEN b
    ELSE BindKeysFrom(
             [b EXCEPT ![VAL_TYPESET_CANON(Head(keys))] = bind_index],
             Tail(keys), bind_index + 1)

Collect_Context_Keys(C, H, context, check_dups) ==
    LET keys == Tail(CTX_KEYS(H, context))
        bind_index == Len(C.buf)
    IN  IF check_dups
        THEN CollectKeysCheckDups(C, keys)
        ELSE [C EXCEPT
                 !.buf = C.buf \o SubSeq(keys, 1, CTX_LEN(H, context)),
                 !.binds = BindKeysFrom(C.binds, keys, bind_index)]

\* ---------------------------------------------- Collect_Context_Inner_Loop
\* as Fail_Dup_Vars, but the buffer is emptied before the reset loop runs,
\* which then stops at once
Fail_Dup_Vars_LenFirst(C, stale) ==
    [C EXCEPT !.buf = <<>>, !.failed = TRUE]

\* The COLLECT_NO_DUP failure path: reset the Binding Table from the buffer,
\* empty the buffer, fail.  `stale` is the set of symbols found in the cells
\* past the buffer's length that the reset loop walks before it reads an END:
\* the buffer is not terminated while it is being built.
Fail_Dup_Vars(C, stale) ==
    [C EXCEPT !.binds = ZeroAll(C.binds, CellCanons(C.buf) \cup stale),
              !.buf = <<>>,
              !.failed = TRUE]

\* as Collect_Context_Inner_Loop, but every word creates a key, as if
\* COLLECT_ANY_WORD were always set
RECURSIVE Collect_Context_Inner_Loop_AllWords(_, _, _, _)
Collect_Context_Inner_Loop_AllWords(C, head, flags, stale) ==
    IF head = <<>> \/ C.failed THEN C
    ELSE LET value == Head(head) IN
         IF ANY_WORD(value)
         THEN IF C.binds[VAL_WORD_CANON(value)] = 0
              THEN Collect_Context_Inner_Loop_AllWords(
                       [C EXCEPT
                           !.binds[VAL_WORD_CANON(value)] = Len(C.buf),
                           !.buf = Append(C.buf, Val_Init_Typeset(
                                       TS_NO_VOID, VAL_WORD_SYM(value)))],
                       Tail(head), flags, stale)
              ELSE IF COLLECT_NO_DUP \in flags
                   THEN Fail_Dup_Vars(C, stale)
                   ELSE Collect_Context_Inner_Loop_AllWords(C, Tail(head),
                                                            flags, stale)
         ELSE IF ANY_EVAL_BLOCK(value) /\ COLLECT_DEEP \in flags
              THEN Collect_Context_Inner_Loop_AllWords(
                       Collect_Context_Inner_Loop_AllWords(C, value.sub,
                                                           flags, stale),
                       Tail(head), flags, stale)
              ELSE Collect_Context_Inner_Loop_AllWords(C, Tail(head), flags,
                                                       stale)

RECURSIVE Collect_Context_Inner_Loop(_, _, _, _)
Collect_Context_Inner_Loop(C, head, flags, stale) ==
    IF head = <<>> \/ C.failed THEN C
    ELSE LET value == Head(head) IN
         IF ANY_WORD(value)
         THEN IF C.binds[VAL_WORD_CANON(value)] = 0
              THEN IF IS_SET_WORD(value) \/ COLLECT_ANY_WORD \in flags
                   THEN Collect_Context_Inner_Loop(
                            [C EXCEPT
                                !.binds[VAL_WORD_CANON(value)] = Len(C.buf),
                                !.buf = Append(C.buf, Val_Init_Typeset(
                                            TS_NO_VOID, VAL_WORD_SYM(value)))],
                            Tail(head), flags, stale)
                   ELSE Collect_Context_Inner_Loop(C, Tail(head), flags, stale)
              ELSE IF COLLECT_NO_DUP \in flags
                   THEN Fail_Dup_Vars(C, stale)
                   ELSE Collect_Context_Inner_Loop(C, Tail(head), flags, stale)
         ELSE IF ANY_EVAL_BLOCK(value) /\ COLLECT_DEEP \in flags
              THEN Collect_Context_Inner_Loop(
                       Collect_Context_Inner_Loop(C, value.sub, flags, stale),
                       Tail(head), flags, stale)
              ELSE Collect_Context_Inner_Loop(C, Tail(head), flags, stale)

\* ------------------------------------------ Grab_Collected_Keylist_Managed
Grab_Collected_Keylist_Managed(H, C, prior) ==
    LET reuse == prior # NULL /\ Len(C.buf) = CTX_LEN(H, prior) + 1
        keylist == IF reuse THEN CTX_KEYLIST(H, prior) ELSE Len(H.kls) + 1
        H1 == IF reuse THEN H ELSE NewKeylist(H, C.buf, NULL)
    IN  [H |-> [H1 EXCEPT !.kls[keylist].meta = NULL], keylist |-> keylist]

\* -------------------------------------------------- Collect_Keylist_Managed
\* as Collect_Keylist_Managed, but the self key is added whether or not the
\* prior has one
Collect_Keylist_Managed_SelfAlways(H, C0, head, prior, flags, stale) ==
    LET C1 == Collect_Keys_Start([binds |-> C0.binds, buf |-> C0.buf,
                                  failed |-> FALSE])
        found == IF prior # NULL
                 THEN Find_Word_In_Context(H, prior, SYM_SELF, TRUE) ELSE 0
        addself == COLLECT_ENSURE_SELF \in flags
        self_key == [Val_Init_Typeset(ALL_64, SYM_SELF)
                        EXCEPT !.hidden = TRUE]
        C2 == IF addself
              THEN [C1 EXCEPT
                       !.buf = <<C1.buf[1], self_key>>,
                       !.binds[VAL_TYPESET_CANON(self_key)] = 1]
              ELSE C1
        self_index == IF COLLECT_ENSURE_SELF \in flags
                      THEN (IF addself THEN 1 ELSE found) ELSE 0
        C3 == IF prior # NULL
              THEN Collect_Context_Keys(C2, H, prior, FALSE) ELSE C2
        C4 == Collect_Context_Inner_Loop(C3, head, flags, stale)
        G == Grab_Collected_Keylist_Managed(H, C4, prior)
    IN  IF C4.failed
        THEN [H |-> H, C |-> C4, keylist |-> NULL, self_index |-> self_index,
              failed |-> TRUE]
        ELSE [H |-> G.H, C |-> Collect_Keys_End(C4), keylist |-> G.keylist,
              self_index |-> self_index, failed |-> FALSE]

\* Returns [H, C, keylist, self_index, failed]; on failure no key list is
\* made and C is the state at the moment the error is raised.
Collect_Keylist_Managed(H, C0, head, prior, flags, stale) ==
    LET C1 == Collect_Keys_Start([binds |-> C0.binds, buf |-> C0.buf,
                                  failed |-> FALSE])
        found == IF prior # NULL
                 THEN Find_Word_In_Context(H, prior, SYM_SELF, TRUE) ELSE 0
        addself == COLLECT_ENSURE_SELF \in flags /\ found = 0
        self_key == [Val_Init_Typeset(ALL_64, SYM_SELF)
                        EXCEPT !.hidden = TRUE]
        C2 == IF addself
              THEN [C1 EXCEPT
                       !.buf = <<C1.buf[1], self_key>>,
                       !.binds[VAL_TYPESET_CANON(self_key)] = 1]
              ELSE C1
        self_index == IF COLLECT_ENSURE_SELF \in flags
                      THEN (IF addself THEN 1 ELSE found) ELSE 0
        C3 == IF prior # NULL
              THEN Collect_Context_Keys(C2, H, prior, FALSE) ELSE C2
        C4 == Collect_Context_Inner_Loop(C3, head, flags, stale)
        G == Grab_Collected_Keylist_Managed(H, C4, prior)
    IN  IF C4.failed
        THEN [H |-> H, C |-> C4, keylist |-> NULL, self_index |-> self_index,
              failed |-> TRUE]
        ELSE [H |-> G.H, C |-> Collect_Keys_End(C4), keylist |-> G.keylist,
              self_index |-> self_index, failed |-> FALSE]

\* ------------------------------------------------------------ Collect_Words
RECURSIVE Collect_Words_Inner_Loop(_, _, _)
Collect_Words_Inner_Loop(C, head, flags) ==
    IF head = <<>> THEN C
    ELSE LET value == Head(head) IN
         IF ANY_WORD(value)
            /\ C.binds[VAL_WORD_CANON(value)] = 0
            /\ (IS_SET_WORD(value) \/ COLLECT_ANY_WORD \in flags)
         THEN Collect_Words_Inner_Loop(
                  [C EXCEPT !.binds[VAL_WORD_CANON(value)] = 1,
                            !.buf = Append(C.buf, Word(VAL_WORD_SYM(value)))],
                  Tail(head), flags)
         ELSE IF ANY_EVAL_BLOCK(value) /\ COLLECT_DEEP \in flags
              THEN Collect_Words_Inner_Loop(
                       Collect_Words_Inner_Loop(C, value.sub, flags),
                       Tail(head), flags)
              ELSE Collect_Words_Inner_Loop(C, Tail(head), flags)

\* opt_prior_head is only read when has_prior (a non-null pointer)
Collect_Words(C0, head, has_prior, opt_prior_head, flags) ==
    LET C1 == IF has_prior
              THEN Collect_Words_Inner_Loop(C0, opt_prior_head,
                                            {COLLECT_ANY_WORD})
              ELSE C0
        start == Len(C1.buf)
        C2 == Collect_Words_Inner_Loop(C1, head, flags)
        C3 == [C2 EXCEPT !.binds = ZeroAll(C2.binds, CellCanons(C2.buf))]
    IN  [array |-> SubSeq(C3.buf, start + 1, Len(C3.buf)),
         C |-> [C3 EXCEPT !.buf = <<>>]]

\* ------------------------------------------------------ Assert_Context_Core
\* TRUE when the debug check passes (no Panic_Context) for a non-stack
\* context.
Assert_Context_Core(H, context) ==
    LET vars_len == Len(CTX_VARLIST(H, context))
        keys_len == Len(CTX_KEYS(H, context))
        rootkey == CTX_KEYS(H, context)[1]
        var == CTX_VALUE(H, context)
    IN  /\ ANY_CONTEXT(var)
        /\ CTX_KEYLIST(H, context) # NULL
        /\ keys_len >= 1
        /\ keys_len = vars_len
        /\ VAL_TYPESET_SYM(rootkey) = SYM_0
        /\ var.ref = context

\* ------------------------------------------------ Clonify_Values_Len_Managed
\* A block or string value gets a copy of its series: same content, new
\* series node.  The node made for slot n of context c is NewSeries(c, n).
NewSeries(c, n) == c * 10 + n
Clonify(v, c, n) == IF v.t = "block" THEN [v EXCEPT !.ref = NewSeries(c, n)]
                    ELSE v

\* a cell of a fresh Make_Array that nothing has written yet
UNINITIALIZED == MkVal("uninitialized", "", 0, 0)

\* ---------------------------------------------- Make_Selfish_Context_Detect
\* The result is the context Len(H.ctxs) + 1.
Make_Selfish_Context_Detect(H, C0, kind, spec, head, opt_parent) ==
    LET K == Collect_Keylist_Managed(
                 H, C0, head, opt_parent,
                 {COLLECT_ONLY_SET_WORDS, COLLECT_ENSURE_SELF}, {})
        keylist == K.keylist
        len == Len(K.H.kls[keylist].keys)
        context == Len(H.ctxs) + 1
        plen == IF opt_parent # NULL THEN CTX_LEN(H, opt_parent) ELSE 0
        blanks == [n \in 1 .. len |->
                      IF n = 1 THEN TrashRootvar(context) ELSE BLANK_VALUE]
        copied == [n \in 1 .. len |->
                      IF opt_parent # NULL /\ n >= 2
                      THEN Clonify(IF n <= plen + 1
                                   THEN CTX_VARLIST(H, opt_parent)[n]
                                   ELSE blanks[n],
                                   context, n - 1)
                      ELSE blanks[n]]
        H1 == INIT_CTX_KEYLIST_SHARED(
                  NewVarlist(K.H, copied, keylist), context, keylist)
        H2 == [H1 EXCEPT !.ctxs[context].vars[1] = CtxVal(kind, context)]
        H3 == INIT_CONTEXT_META(H2, context, spec)
        H4 == [H3 EXCEPT !.ctxs[context].vars[K.self_index + 1] =
                             CTX_VALUE(H3, context)]
    IN  [H |-> H4, C |-> [binds |-> K.C.binds, buf |-> K.C.buf],
         context |-> context, self_index |-> K.self_index]

\* --------------------------------------------------------- Context_To_Array
\* as Context_To_Array, but a word's index counts the keys that were emitted
Context_To_Array_CountsEmitted(H, context, mode) ==
    LET RECURSIVE Loop(_, _, _)
        Loop(n, k, block) ==
            IF n + 1 > Len(CTX_KEYS(H, context)) THEN block
            ELSE IF CTX_KEY(H, context, n).hidden THEN Loop(n + 1, k, block)
            ELSE Loop(n + 1, k + 1,
                      block
                      \o (IF mode % 2 = 1
                          THEN <<[MkWord(IF mode \div 2 = 1 THEN "set-word"
                                         ELSE "word",
                                         VAL_TYPESET_SYM(CTX_KEY(H, context, n)))
                                     EXCEPT !.bound = TRUE, !.ctx = context,
                                            !.index = k]>>
                          ELSE <<>>)
                      \o (IF mode \div 2 = 1 THEN <<CTX_VAR(H, context, n)>>
                          ELSE <<>>))
    IN  Loop(1, 1, <<>>)

\* mode: 1 words, 2 values, 3 set-words and values (bit 1: words, bit 2:
\* values).  The block is the sequence of the cells appended to it.
Context_To_Array(H, context, mode) ==
    LET RECURSIVE Loop(_, _)
        Loop(n, block) ==
            IF n + 1 > Len(CTX_KEYS(H, context)) THEN block
            ELSE IF CTX_KEY(H, context, n).hidden THEN Loop(n + 1, block)
            ELSE Loop(n + 1,
                      block
                      \o (IF mode % 2 = 1
                          THEN <<[MkWord(IF mode \div 2 = 1 THEN "set-word"
                                         ELSE "word",
                                         VAL_TYPESET_SYM(CTX_KEY(H, context, n)))
                                     EXCEPT !.bound = TRUE, !.ctx = context,
                                            !.index = n]>>
                          ELSE <<>>)
                      \o (IF mode \div 2 = 1 THEN <<CTX_VAR(H, context, n)>>
                          ELSE <<>>))
    IN  Loop(1, <<>>)

\* --------------------------------------------------- Merge_Contexts_Selfish
\* as ScatterParent2, but a value is stored only where the slot has none yet,
\* so that parent1's value wins
ScatterParent2_FirstWins(vs, binds_, keys2, vars2, j) ==
    [n \in 1 .. Len(vs) |->
        IF vs[n] = MkVal("uninitialized", "", 0, 0)
        THEN LET from == {i \in 2 .. Len(keys2) :
                             binds_[VAL_TYPESET_CANON(keys2[i])] = n - 1}
             IN  IF from = {} THEN vs[n]
                 ELSE vars2[CHOOSE i \in from : TRUE]
        ELSE vs[n]]

RECURSIVE ScatterParent2(_, _, _, _, _)
ScatterParent2(vs, binds_, keys2, vars2, j) ==
    IF j + 1 > Len(keys2) THEN vs
    ELSE LET n == binds_[VAL_TYPESET_CANON(keys2[j + 1])]
             value == IF j + 1 <= Len(vars2) THEN vars2[j + 1]
                      ELSE UNINITIALIZED
         IN  ScatterParent2([vs EXCEPT ![n + 1] = value],
                            binds_, keys2, vars2, j + 1)

\* The result is the context Len(H.ctxs) + 1; self_index = 0 is the case in
\* which assert(self_index != 0) does not hold.
Merge_Contexts_Selfish(H, C0, parent1, parent2) ==
    LET C1 == Collect_Keys_Start([binds |-> C0.binds, buf |-> C0.buf,
                                  failed |-> FALSE])
        C2 == Collect_Context_Keys(C1, H, parent1, FALSE)
        C3 == Collect_Context_Keys(C2, H, parent2, TRUE)
        keylist == Len(H.kls) + 1
        H1 == NewKeylist(H, C3.buf, NULL)
        child == Len(H.ctxs) + 1
        len == Len(C3.buf)
        len1 == CTX_LEN(H, parent1)
        vars1 == [n \in 1 .. len |->
                     IF n = 1 THEN CtxVal(CTX_TYPE(H, parent1), child)
                     ELSE IF n <= len1 + 1 THEN CTX_VARLIST(H, parent1)[n]
                     ELSE UNINITIALIZED]
        vars2 == ScatterParent2(vars1, C3.binds, CTX_KEYS(H, parent2),
                                CTX_VARLIST(H, parent2), 1)
        vars3 == [n \in 1 .. len |->
                     IF n = 1 THEN vars2[n] ELSE Clonify(vars2[n], child, n - 1)]
        H2 == INIT_CTX_KEYLIST_UNIQUE(NewVarlist(H1, vars3, keylist),
                                      child, keylist)
        C4 == Collect_Keys_End(C3)
        self_index == Find_Word_In_Context(H2, child, SYM_SELF, TRUE)
        H3 == [H2 EXCEPT !.ctxs[child].vars[self_index + 1] =
                             CTX_VALUE(H2, child)]
    IN  [H |-> H3, C |-> [binds |-> C4.binds, buf |-> C4.buf],
         child |-> child, self_index |-> self_index]

\* ----------------------------------------------------------- Resolve_Context
\* only_words = [ow |-> "void" | "integer" | "block", i |-> Nat,
\*               words |-> block]
OnlyVoid == [ow |-> "void", i |-> 0, words |-> <<>>]
OnlyIndex(i) == [ow |-> "integer", i |-> i, words |-> <<>>]
OnlyBlock(words) == [ow |-> "block", i |-> 0, words |-> words]

\* binds[canon] = v for the keys at index >= n of `keys`
RECURSIVE TagKeysFrom(_, _, _, _)
TagKeysFrom(b, keys, n, v) ==
    IF n + 1 > Len(keys) THEN b
    ELSE TagKeysFrom([b EXCEPT ![VAL_TYPESET_CANON(keys[n + 1])] = v],
                     keys, n + 1, v)

\* binds[canon] = v for the WORD! and SET-WORD! items of `words`
RECURSIVE TagWords(_, _, _)
TagWords(b, words, v) ==
    IF words = <<>> THEN b
    ELSE IF IS_WORD(Head(words)) \/ IS_SET_WORD(Head(words))
         THEN TagWords([b EXCEPT ![VAL_WORD_CANON(Head(words))] = v],
                       Tail(words), v)
         ELSE TagWords(b, Tail(words), v)

RECURSIVE CountWords(_)
CountWords(words) ==
    IF words = <<>> THEN 0
    ELSE (IF IS_WORD(Head(words)) \/ IS_SET_WORD(Head(words)) THEN 1 ELSE 0)
         + CountWords(Tail(words))

\* number of keys at index >= n whose bind entry is nonzero
RECURSIVE CountTagged(_, _, _)
CountTagged(b, keys, n) ==
    IF n + 1 > Len(keys) THEN 0
    ELSE (IF b[VAL_TYPESET_CANON(keys[n + 1])] # 0 THEN 1 ELSE 0)
         + CountTagged(b, keys, n + 1)

\* "Maps a word to its value index in the source context"
RECURSIVE MarkSource(_, _, _, _)
MarkSource(b, keys, n, is_void) ==
    IF n + 1 > Len(keys) THEN b
    ELSE LET canon == VAL_TYPESET_CANON(keys[n + 1]) IN
         MarkSource(IF is_void \/ b[canon] # 0
                    THEN [b EXCEPT ![canon] = n] ELSE b,
                    keys, n + 1, is_void)

\* as ResolveCopyLoop, but a slot of an unlocked key is written whether or
\* not it is void and whatever `all` is
RECURSIVE ResolveCopyLoop_Overwrites(_, _, _, _, _)
ResolveCopyLoop_Overwrites(S, target, source, n, all) ==
    IF n + 1 > Len(CTX_KEYS(S.H, target)) THEN S
    ELSE LET key == CTX_KEY(S.H, target, n)
             canon == VAL_TYPESET_CANON(key)
             m == S.binds[canon]
             H1 == IF m = 0 \/ key.locked THEN S.H
                   ELSE [S.H EXCEPT !.ctxs[target].vars[n + 1] =
                            IF m < 0 THEN VOID_VALUE
                            ELSE CTX_VAR(S.H, source, m)]
         IN  ResolveCopyLoop_Overwrites(
                 [H |-> H1, binds |-> [S.binds EXCEPT ![canon] = 0]],
                 target, source, n + 1, all)

\* "Foreach word in target, copy the correct value from source"
\* S = [H, binds]; the loop runs over the target's key list to its END.
RECURSIVE ResolveCopyLoop(_, _, _, _, _)
ResolveCopyLoop(S, target, source, n, all) ==
    IF n + 1 > Len(CTX_KEYS(S.H, target)) THEN S
    ELSE LET k == CTX_KEYLIST(S.H, target)
             key == CTX_KEY(S.H, target, n)
             canon == VAL_TYPESET_CANON(key)
             m == S.binds[canon]
             var == CTX_VAR(S.H, target, n)
         IN  IF m = 0 THEN ResolveCopyLoop(S, target, source, n + 1, all)
             ELSE LET b1 == [S.binds EXCEPT ![canon] = 0]
                      H1 == IF ~key.locked /\ (all \/ IS_VOID(var))
                            THEN IF m < 0
                                 THEN [S.H EXCEPT
                                          !.ctxs[target].vars[n + 1] =
                                              VOID_VALUE]
                                 ELSE [S.H EXCEPT
                                          !.ctxs[target].vars[n + 1] =
                                              CTX_VAR(S.H, source, m),
                                          !.kls[k].keys[n + 1].lookback =
                                              CTX_KEY(S.H, source, m).lookback]
                            ELSE S.H
                  IN  ResolveCopyLoop([H |-> H1, binds |-> b1],
                                      target, source, n + 1, all)

\* "Add any new words and values"
RECURSIVE ResolveAppendLoop(_, _, _, _)
ResolveAppendLoop(S, target, source, n) ==
    IF n + 1 > Len(CTX_KEYS(S.H, source)) THEN S
    ELSE LET key == CTX_KEY(S.H, source, n)
             canon == VAL_TYPESET_CANON(key)
         IN  IF S.binds[canon] = 0
             THEN ResolveAppendLoop(S, target, source, n + 1)
             ELSE LET A == Append_Context_Core(S.H, target, NoWord, canon,
                                               key.lookback)
                      H1 == [A.H EXCEPT !.ctxs[target].vars[A.slot + 1] =
                                            CTX_VAR(A.H, source, n)]
                  IN  ResolveAppendLoop(
                          [H |-> H1, binds |-> [S.binds EXCEPT ![canon] = 0]],
                          target, source, n + 1)

\* "Expand target as needed": the delta handed to Expand_Context before the
\* copy loop, 0 when it is not called
ResolveExpandDelta(H, target, only_words, expand) ==
    LET i == IF only_words.ow = "integer"
             THEN (IF only_words.i = 0 THEN 1 ELSE only_words.i) ELSE 0
        b1 == IF i # 0
              THEN TagKeysFrom(ZeroBinds, CTX_KEYS(H, target), i, -1)
              ELSE IF only_words.ow = "block"
              THEN TagWords(ZeroBinds, only_words.words, -1)
              ELSE ZeroBinds
        n1 == IF i # 0 THEN CTX_LEN(H, target)
              ELSE IF only_words.ow = "block"
              THEN CountWords(only_words.words) ELSE 0
        n2 == n1 - CountTagged(b1, CTX_KEYS(H, target), 1)
    IN  IF only_words.ow = "integer" /\ i > CTX_LEN(H, target) THEN 0
        ELSE IF expand /\ n1 > 0 /\ n2 > 0 THEN n2 ELSE 0

\* The expansions of the target's storage during a call that appends
\* `appended` keys: the one of Expand_Context, then one unit for every
\* append (EXPAND_SERIES_TAIL) that finds no room left by it.
ResolveExpansions(H, target, only_words, expand, appended) ==
    LET delta == ResolveExpandDelta(H, target, only_words, expand)
    IN  (IF delta > 0 THEN <<delta>> ELSE <<>>)
            \o [j \in 1 .. (IF appended > delta THEN appended - delta ELSE 0)
                    |-> 1]

Resolve_Context(H, C0, target, source, only_words, all, expand) ==
    LET i == IF only_words.ow = "integer"
             THEN (IF only_words.i = 0 THEN 1 ELSE only_words.i) ELSE 0
        is_block == only_words.ow = "block"
        is_void == only_words.ow = "void"
        C1 == Collect_Keys_Start(C0)
        \* tag the word ids that need to be copied
        b1 == IF i # 0
              THEN TagKeysFrom(C1.binds, CTX_KEYS(H, target), i, -1)
              ELSE IF is_block THEN TagWords(C1.binds, only_words.words, -1)
              ELSE C1.binds
        n1 == IF i # 0 THEN CTX_LEN(H, target)
              ELSE IF is_block THEN CountWords(only_words.words) ELSE 0
        \* expand target as needed
        n2 == n1 - CountTagged(b1, CTX_KEYS(H, target), 1)
        H1 == IF expand /\ n1 > 0 /\ n2 > 0
              THEN Expand_Context(H, target, n2) ELSE H
        expand1 == IF expand /\ n1 > 0 THEN n2 > 0 ELSE expand
        b2 == MarkSource(b1, CTX_KEYS(H1, source), 1, is_void)
        S3 == ResolveCopyLoop([H |-> H1, binds |-> b2], target, source,
                              IF i # 0 THEN i ELSE 1, all)
        S4 == IF expand1
              THEN ResolveAppendLoop(S3, target, source, 1)
              ELSE [S3 EXCEPT !.binds =
                       IF i # 0
                       THEN TagKeysFrom(S3.binds, CTX_KEYS(S3.H, target), i, 0)
                       ELSE IF is_block
                       THEN TagWords(S3.binds, only_words.words, 0)
                       ELSE TagKeysFrom(S3.binds, CTX_KEYS(S3.H, source), 1, 0)]
    IN  IF only_words.ow = "integer" /\ i > CTX_LEN(H, target)
        THEN [H |-> H, C |-> C0]
        ELSE [H |-> S4.H, C |-> [binds |-> S4.binds, buf |-> <<>>]]

\* ============================================================ f-modify.c
\* An array is [cells |-> Seq([val, nl]), nl_tail |-> BOOLEAN]: the cells up to
\* its length with their NEWLINE_BEFORE flag, and ARRAY_FLAG_NEWLINE_AT_TAIL.
\* A source value is [st |-> "null" | "value" | "block", cell, self, arr,
\* index]: for a block, `self` says that its array is the destination array,
\* `arr` is its array otherwise, `index` its VAL_INDEX.
AM_SPLICE == "AM_SPLICE"
AM_PART == "AM_PART"
AM_LINE == "AM_LINE"

TrashCell == [val |-> MkVal("trash", "", 0, 0), nl |-> FALSE]
EmptyArray == [cells |-> <<>>, nl_tail |-> FALSE]
NulledSrc == [st |-> "null", cell |-> TrashCell, self |-> FALSE,
              arr |-> EmptyArray, index |-> 0]
ValueSrc(cell) == [NulledSrc EXCEPT !.st = "value", !.cell = cell]
BlockSrc(arr, index) ==
    [NulledSrc EXCEPT !.st = "block", !.arr = arr, !.index = index,
                      !.cell = [val |-> BlockVal(2, index), nl |-> FALSE]]
SelfSrc(index) ==
    [NulledSrc EXCEPT !.st = "block", !.self = TRUE, !.index = index,
                      !.cell = [val |-> BlockVal(1, index), nl |-> FALSE]]
EMPTY_BLOCK == BlockSrc(EmptyArray, 0)

\* as Expand_Series, but the new units are added at the tail
Expand_Series_AtTail(units, index, delta, blank) ==
    units \o [k \in 1 .. delta |-> blank]

\* Expand_Series: `delta` units open up at `index`, what was there moves up;
\* the new units hold nothing yet
Expand_Series(units, index, delta, blank) ==
    SubSeq(units, 1, index) \o [k \in 1 .. delta |-> blank]
        \o SubSeq(units, index + 1, Len(units))

\* Remove_Series_Units: `len` units go away at `index`; a removal that
\* reaches the tail cuts the series at `index`
Remove_Series_Units(units, index, len) ==
    IF len <= 0 \/ index >= Len(units) THEN units
    ELSE IF index + len >= Len(units) THEN SubSeq(units, 1, index)
    ELSE SubSeq(units, 1, index) \o SubSeq(units, index + len + 1, Len(units))

\* as Copy_Array_At_Extra_Shallow, but the copy starts at the head
Copy_Array_At_Extra_Shallow_FromHead(cells, index) == cells

\* Copy_Array_At_Extra_Shallow: a new array of the cells from `index` on
Copy_Array_At_Extra_Shallow(cells, index) ==
    SubSeq(cells, index + 1, Len(cells))

\* as Modify_Loop, but every cell written is the first cell of the source
Modify_Loop_FirstCell(cells, dst_idx, src_rel, ilen, dups, head_nl, tail_nl) ==
    [p \in 1 .. Len(cells) |->
        IF p - 1 >= dst_idx /\ p - 1 < dst_idx + dups * ilen
        THEN src_rel[1] ELSE cells[p]]

\* as Modify_Loop, but the first cell written never gets NEWLINE_BEFORE from
\* the destination's NEWLINE_AT_TAIL
Modify_Loop_NoHeadNewline(cells, dst_idx, src_rel, ilen, dups, head_nl, tail_nl) ==
    [p \in 1 .. Len(cells) |->
        IF p - 1 >= dst_idx /\ p - 1 < dst_idx + dups * ilen
        THEN IF p - 1 - dst_idx >= ilen /\ (p - 1 - dst_idx) % ilen = 0
                /\ tail_nl
             THEN [src_rel[1] EXCEPT !.nl = TRUE]
             ELSE src_rel[((p - 1 - dst_idx) % ilen) + 1]
        ELSE cells[p]]

\* The loop over the duplicates and the source cells: cell dst_idx + k gets
\* source cell k % ilen (Derelativize copies the cell with its flags), with
\* NEWLINE_BEFORE set on the first cell written when head_newline and on the
\* first cell of every later duplicate when tail_newline.  A write past the
\* length of `cells` is not a cell of the array.
Modify_Loop(cells, dst_idx, src_rel, ilen, dups, head_newline, tail_newline) ==
    LET Written(k) ==
            LET dup_index == k \div ilen
                index == k % ilen
            IN  IF (dup_index = 0 /\ index = 0 /\ head_newline)
                   \/ (dup_index > 0 /\ index = 0 /\ tail_newline)
                THEN [src_rel[index + 1] EXCEPT !.nl = TRUE]
                ELSE src_rel[index + 1]
    IN  [p \in 1 .. Len(cells) |->
            IF p - 1 >= dst_idx /\ p - 1 < dst_idx + dups * ilen
            THEN Written(p - 1 - dst_idx) ELSE cells[p]]

\* The result is [arr, index, past]: the destination array afterwards, the
\* returned index, and the number of cells the loop wrote past the array's
\* length (0 when every write was inside the array).
Modify_Array(verb, dst_arr, dst_idx0, src_val0, flags0, dst_len, dups) ==
    LET L == Len(dst_arr.cells)
        nulled_change == src_val0.st = "null" /\ verb = "change"
        flags == IF nulled_change THEN flags0 \cup {AM_SPLICE} ELSE flags0
        src_val == IF nulled_change THEN EMPTY_BLOCK ELSE src_val0
    IN  IF src_val.st = "null" \/ dups <= 0
        THEN [arr |-> dst_arr,
              index |-> IF verb = "append" THEN 0 ELSE dst_idx0,
              past |-> 0]
        ELSE
    LET dst_idx == IF verb = "append" \/ dst_idx0 > L THEN L ELSE dst_idx0
        splice == AM_SPLICE \in flags
        src_arr == IF src_val.self THEN dst_arr ELSE src_val.arr
        len_at == IF src_val.index >= Len(src_arr.cells) THEN 0
                  ELSE Len(src_arr.cells) - src_val.index
        ilen == IF ~splice THEN 1
                ELSE IF verb # "change" /\ AM_PART \in flags THEN dst_len
                ELSE len_at
        tail_newline ==
            IF AM_LINE \in flags THEN TRUE
            ELSE IF ~splice THEN FALSE
            ELSE IF src_val.index + ilen >= Len(src_arr.cells)
                 THEN src_arr.nl_tail
            ELSE IF ilen = 0 THEN FALSE
            ELSE src_arr.cells[src_val.index + ilen + 1].nl
        src_rel == IF ~splice THEN <<src_val.cell>>
                   ELSE IF src_val.self
                   THEN Copy_Array_At_Extra_Shallow(dst_arr.cells,
                                                    src_val.index)
                   ELSE SubSeq(src_arr.cells, src_val.index + 1,
                               Len(src_arr.cells))
        size == dups * ilen
        head_newline == dst_idx = L /\ dst_arr.nl_tail
        resized ==
            IF verb # "change"
            THEN Expand_Series(dst_arr.cells, dst_idx, size, TrashCell)
            ELSE IF size > dst_len
            THEN Expand_Series(dst_arr.cells, dst_idx, size - dst_len,
                               TrashCell)
            ELSE IF size < dst_len /\ AM_PART \in flags
            THEN Remove_Series_Units(dst_arr.cells, dst_idx, dst_len - size)
            ELSE IF size + dst_idx > L
            THEN Expand_Series(dst_arr.cells, L, size - (L - dst_idx),
                               TrashCell)
            ELSE dst_arr.cells
        looped == Modify_Loop(resized, dst_idx, src_rel, ilen, dups,
                              head_newline, tail_newline)
        end_idx == dst_idx + size
        tailed == IF tail_newline /\ end_idx < Len(looped)
                  THEN [looped EXCEPT ![end_idx + 1].nl = TRUE] ELSE looped
        lined == IF AM_LINE \in flags /\ Len(tailed) > 0
                 THEN [tailed EXCEPT ![1].nl = TRUE] ELSE tailed
        nl_tail == IF tail_newline /\ end_idx = Len(looped) THEN TRUE
                   ELSE IF head_newline /\ size > 0 THEN FALSE
                   ELSE dst_arr.nl_tail
    IN  [arr |-> [cells |-> lined, nl_tail |-> nl_tail],
         index |-> IF verb = "append" THEN 0 ELSE size + dst_idx,
         past |-> IF end_idx > Len(looped) THEN end_idx - Len(looped) ELSE 0]

\* ------------------------------------------------- Modify_String_Or_Binary
\* A series is [bytes, is_string, length, bmk]: its used bytes, whether it
\* carries SERIES_FLAG_IS_STRING, the codepoint length stored on it
\* (MISC.length) and its bookmark [has, index, offset].  The destination
\* value is [binary, index]: a BINARY! or a text value, and its VAL_INDEX.
\* A source value is [kind, bytes, n, index, self, is_string, length]: for a
\* series kind the bytes of its series, whether that series is the
\* destination series, its string flag and codepoint length; for a char its
\* encoding; for a block what forming / joining its items gives; for an
\* integer its value n.
SIZEOF_REBVAL == 16

NoBookmark == [has |-> FALSE, index |-> 0, offset |-> 0]
NulledValue == [kind |-> "null", bytes |-> <<>>, n |-> 0, index |-> 0,
                self |-> FALSE, is_string |-> FALSE, length |-> 0]
EMPTY_TEXT == [NulledValue EXCEPT !.kind = "text", !.is_string = TRUE]

\* the byte at an offset; the byte after the used ones is the terminator
ByteAt(bytes, off) == IF off < Len(bytes) THEN bytes[off + 1] ELSE 0

\* number of codepoints that start in the first `off` bytes
STR_INDEX_AT(bytes, off) ==
    Cardinality({k \in 1 .. off : k <= Len(bytes)
                                  /\ (bytes[k] < 128 \/ bytes[k] >= 192)})

\* byte offset at which codepoint `index` starts (NEXT_STR walks by the size
\* the lead byte announces)
VAL_OFFSET_FOR_INDEX(bytes, index) ==
    LET RECURSIVE Walk(_, _)
        Walk(off, n) ==
            IF n = 0 \/ off >= Len(bytes) THEN off
            ELSE Walk(off + (IF bytes[off + 1] >= 192 THEN 2 ELSE 1), n - 1)
        off == Walk(0, index)
    IN  IF off > Len(bytes) THEN Len(bytes) ELSE off

\* as VAL_SIZE_LIMIT_AT, but every codepoint is taken to be one byte
VAL_SIZE_LIMIT_AT_OneByte(bytes, length, index, limit) ==
    LET len_at == IF index >= length THEN 0 ELSE length - index
        len == IF limit >= 0 /\ limit < len_at THEN limit ELSE len_at
    IN  [size |-> len, len |-> len]

\* VAL_SIZE_LIMIT_AT: [size, len] of the codepoints of a string from `index`
\* on, at most `limit` of them (-1: all)
VAL_SIZE_LIMIT_AT(bytes, length, index, limit) ==
    LET len_at == IF index >= length THEN 0 ELSE length - index
        len == IF limit >= 0 /\ limit < len_at THEN limit ELSE len_at
    IN  [size |-> VAL_OFFSET_FOR_INDEX(bytes, index + len)
                      - VAL_OFFSET_FOR_INDEX(bytes, index),
         len |-> len]

\* Mold_Or_Form_Value of an integer: its decimal digits
RECURSIVE FormInteger(_)
FormInteger(n) ==
    IF n < 10 THEN <<48 + n>> ELSE FormInteger(n \div 10) \o <<48 + (n % 10)>>

\* SET_SERIES_USED: the first n bytes of the buffer
SET_SERIES_USED(bytes, n) ==
    [k \in 1 .. (IF n < 0 THEN 0 ELSE n) |-> ByteAt(bytes, k - 1)]

\* The content to inject: [fail, data, size, len, alias].  `data` is what
\* src_ptr points at, `alias` says that it is memory of the destination
\* series (a BINARY! source on the destination series is not copied first).
Modify_Source(ser, dst, src, limit) ==
    LET Ok(data, len, alias) ==
            [fail |-> "", data |-> data, size |-> Len(data),
             len |-> IF ser.is_string THEN len ELSE Len(data),
             alias |-> alias]
        Fail(why) == [fail |-> why, data |-> <<>>, size |-> 0, len |-> 0,
                      alias |-> FALSE]
        Form(data) == Ok(data, STR_INDEX_AT(data, Len(data)), FALSE)
        sbytes == IF src.self THEN ser.bytes ELSE src.bytes
        slength == IF src.self THEN ser.length ELSE src.length
        sstring == IF src.self THEN ser.is_string ELSE src.is_string
        FromIndex == SubSeq(sbytes, VAL_OFFSET_FOR_INDEX(sbytes, src.index) + 1,
                            Len(sbytes))
    IN  CASE src.kind = "char" -> Ok(src.bytes, 1, FALSE)
          [] src.kind = "integer" ->
                IF ~dst.binary THEN Form(FormInteger(src.n))
                ELSE IF src.n > 255 THEN Fail("uint8")
                ELSE [Ok(<<src.n>>, 1, FALSE) EXCEPT !.len = 1]
          [] src.kind = "binary" ->
                LET data == SubSeq(sbytes, src.index + 1, Len(sbytes))
                IN  IF ~ser.is_string THEN Ok(data, Len(data), src.self)
                    ELSE IF ~sstring THEN Fail("utf8-unchecked")
                    ELSE IF ByteAt(sbytes, src.index) > 128
                    THEN Fail("src-index")
                    ELSE Ok(data,
                            slength - STR_INDEX_AT(sbytes, src.index),
                            src.self)
          [] src.kind = "block" ->
                IF dst.binary
                THEN [Ok(src.bytes, 0, FALSE) EXCEPT !.len = Len(src.bytes)]
                ELSE Form(src.bytes)
          [] src.kind = "text" ->
                IF src.self THEN Form(FromIndex)
                ELSE LET sl == VAL_SIZE_LIMIT_AT(sbytes, slength, src.index,
                                                 limit)
                     IN  [Ok(FromIndex, sl.len, FALSE) EXCEPT
                             !.size = sl.size]
          [] OTHER -> Form(<<60>> \o FromIndex \o <<62>>)

\* The result is [ser, index, fail]: the series afterwards, the returned
\* index, and the failure ("" when the call returns).  `moved` says whether
\* a read through a source pointer into the destination series, made after
\* the series was resized, still finds the bytes of before the call.
Modify_String_Or_Binary(ser, dst, verb, src0, flags, part0, dups, moved) ==
    LET dst_used == Len(ser.bytes)
        dst_off0 == IF dst.binary THEN dst.index
                    ELSE VAL_OFFSET_FOR_INDEX(ser.bytes, dst.index)
        tail == IF dst.binary THEN dst_used ELSE ser.length
        Return(index) == [ser |-> ser, index |-> index, fail |-> ""]
        Failed(why) == [ser |-> ser, index |-> 0, fail |-> why]
        natural == IF verb = "append" THEN 0 ELSE dst.index
        src == IF src0.kind = "null" THEN EMPTY_TEXT ELSE src0
        limit == IF verb # "change" /\ AM_PART \in flags THEN part0 ELSE -1
    IN  IF dst.binary /\ ser.is_string /\ ByteAt(ser.bytes, dst.index) >= 128
        THEN Failed("dst-index")
        ELSE IF src0.kind = "null" /\ verb # "change" THEN Return(natural)
        ELSE IF limit = 0 \/ dups <= 0 THEN Return(natural)
        ELSE
    LET at_tail == verb = "append" \/ dst.index > tail
        dst_off == IF at_tail THEN dst_used ELSE dst_off0
        dst_idx == IF at_tail THEN tail ELSE dst.index
        S == Modify_Source(ser, dst, src, limit)
        src_len_raw == IF limit >= 0 THEN limit ELSE S.len
        src_size_raw == IF limit >= 0 THEN limit ELSE S.size
        line == IF AM_LINE \in flags THEN 1 ELSE 0
        src_size_total == (src_size_raw + line) * dups
        src_len_total == (src_len_raw + line) * dups
        \* CHANGE: the codepoints / bytes that go away
        at == IF ser.is_string
              THEN VAL_SIZE_LIMIT_AT(ser.bytes, ser.length, dst.index, -1)
              ELSE [size |-> IF dst.index >= dst_used THEN 0
                             ELSE dst_used - dst.index,
                    len |-> IF dst.index >= dst_used THEN 0
                            ELSE dst_used - dst.index]
        part1 == IF AM_PART \in flags THEN part0 ELSE src_len_total
        part == IF part1 > at.len THEN at.len ELSE part1
        part_size == IF part1 > at.len THEN at.size
                     ELSE IF ser.is_string
                     THEN VAL_SIZE_LIMIT_AT(ser.bytes, ser.length, dst.index,
                                            part1).size
                     ELSE part1
        resized ==
            IF verb # "change"
            THEN Expand_Series(ser.bytes, dst_off, src_size_total, 0)
            ELSE IF src_size_total > part_size
            THEN SET_SERIES_USED(
                     Expand_Series(ser.bytes, dst_off,
                                   src_size_total - part_size, 0),
                     dst_used + src_size_total - part_size)
            ELSE IF part_size > src_size_total
            THEN SET_SERIES_USED(
                     Remove_Series_Units(ser.bytes, dst_off,
                                         part_size - src_size_total),
                     dst_used + src_size_total - part_size)
            ELSE ser.bytes
        length == IF ~ser.is_string THEN Len(resized)
                  ELSE IF verb # "change" THEN tail + src_len_total
                  ELSE tail + src_len_total - part
        bmk1 == IF ~(ser.is_string /\ ser.bmk.has) THEN ser.bmk
                ELSE IF verb # "change"
                THEN (IF ser.bmk.index >= dst_idx
                      THEN [ser.bmk EXCEPT !.offset = @ + src_size_total]
                      ELSE ser.bmk)
                ELSE IF ser.bmk.index > dst_idx
                THEN [ser.bmk EXCEPT !.index = dst_idx, !.offset = dst_off]
                ELSE ser.bmk
        \* what memcpy reads at src_ptr
        data == IF S.alias /\ ~moved
                THEN SubSeq(resized, src0.index + 1, Len(resized))
                ELSE S.data
        chunk == [k \in 1 .. src_size_raw + line |->
                     IF k > src_size_raw THEN 10
                     ELSE IF k <= Len(data) THEN data[k] ELSE 0]
        copied == [p \in 1 .. Len(resized) |->
                      IF p - 1 >= dst_off /\ p - 1 < dst_off + src_size_total
                      THEN chunk[((p - 1 - dst_off) % (src_size_raw + line))
                                 + 1]
                      ELSE resized[p]]
        bmk2 == IF bmk1.has /\ (bmk1.index > length
                                \/ length < SIZEOF_REBVAL)
                THEN NoBookmark ELSE bmk1
    IN  IF S.fail # "" THEN Failed(S.fail)
        ELSE [ser |-> [bytes |-> copied, is_string |-> ser.is_string,
                       length |-> length, bmk |-> bmk2],
              index |-> IF verb = "append" THEN 0
                        ELSE dst_idx + src_len_total,
              fail |-> ""]

\* =================================================================== state
\* ctxs, kls : the heap (var lists with their key list link; key lists)
\* binds     : the Binding Table, indexed by canon symbol
\* buf       : the live cells of BUF_COLLECT (Len(buf) = its length)
\* hist      : per context, the Append_Context_Core calls made on it while
\*             nothing but Alloc_Context, appends and slot writes touched it
\* last      : the operation just performed, its arguments, its result and
\*             the heap it started from
\* array     : the array that Modify_Array works on
\* series    : the series that Modify_String_Or_Binary works on
\* nops      : number of operations performed so far
\* budget    : number of operations the behaviour may perform
Heap == [ctxs |-> ctxs, kls |-> kls]
Coll == [binds |-> binds, buf |-> buf]
EmptyHeap == [ctxs |-> <<>>, kls |-> <<>>]
CleanColl == [binds |-> ZeroBinds, buf |-> <<>>]

Ctxs == 1 .. Len(ctxs)
ValidCtxs == {c \in Ctxs : Assert_Context_Core(Heap, c)}

SetHeap(H) == ctxs' = H.ctxs /\ kls' = H.kls
SetColl(C) == binds' = C.binds /\ buf' = C.buf

\* ------------------------------------------------- contexts to start from
\* A shape is a context as its creator leaves it: made by Alloc_Context and
\* appends (plain) or by Make_Selfish_Context_Detect (selfish), with a value
\* stored in every variable.
Entry(sym, la, val) == [sym |-> sym, lookahead |-> la, val |-> val]

EntrySets == {
    <<>>,
    <<Entry(2, FALSE, IntVal(1))>>,
    <<Entry(2, FALSE, IntVal(1)), Entry(3, TRUE, IntVal(2))>>,
    <<Entry(3, FALSE, BlockVal(1, 7)), Entry(4, FALSE, VOID_VALUE)>>,
    <<Entry(5, TRUE, IntVal(2))>>
}

Shapes == [kind : {"object"}, selfish : BOOLEAN, entries : EntrySets]
          \cup {[kind |-> "error", selfish |-> TRUE,
                 entries |-> <<Entry(2, FALSE, IntVal(1))>>],
                [kind |-> "error", selfish |-> FALSE,
                 entries |-> <<Entry(3, FALSE, IntVal(2))>>]}

RECURSIVE AppendEntries(_, _, _)
AppendEntries(H, c, entries) ==
    IF entries = <<>> THEN H
    ELSE LET e == Head(entries)
             A == Append_Context_Core(H, c, NoWord, e.sym, e.lookahead)
         IN  AppendEntries(
                 [A.H EXCEPT !.ctxs[c].vars[A.slot + 1] = e.val],
                 c, Tail(entries))

HeadOf(entries) == [i \in 1 .. Len(entries) |-> SetWord(entries[i].sym)]

BuildContext(H, shape) ==
    LET c == Len(H.ctxs) + 1 IN
    IF shape.selfish
    THEN LET M == Make_Selfish_Context_Detect(
                      H, CleanColl, shape.kind, NULL, HeadOf(shape.entries),
                      NULL)
         IN  [M.H EXCEPT !.ctxs[c].vars =
                 [n \in 1 .. Len(@) |->
                     IF n >= 3 THEN shape.entries[n - 2].val ELSE @[n]]]
    ELSE LET H1 == Alloc_Context(H, 0)
             H2 == [H1 EXCEPT !.ctxs[c].vars[1] = CtxVal(shape.kind, c)]
         IN  AppendEntries(H2, c, shape.entries)

\* the heaps with one more context, of one of `shapes`
Built(heaps, shapes) == {BuildContext(H, sh) : H \in heaps, sh \in shapes}

\* the heaps of two contexts, the first of shapes1, the second of shapes2;
\* with a meta object, the second one's is the first
StartHeaps(shapes1, shapes2, metas) ==
    {IF m THEN INIT_CONTEXT_META(H, 2, 1) ELSE H :
        H \in Built(Built({EmptyHeap}, shapes1), shapes2), m \in metas}

NotFresh(n) == [c \in 1 .. n |-> [fresh |-> FALSE, log |-> <<>>]]

Untouched(h, cs) ==
    [c \in DOMAIN h |-> IF c \in cs THEN [h[c] EXCEPT !.fresh = FALSE]
                        ELSE h[c]]

\* one call of an operation of c-frame.c: the series that f-modify.c works on
\* stay as they are
Step ==
    /\ nops < budget /\ nops' = nops + 1 /\ budget' = budget
    /\ UNCHANGED <<array, series>>

InitFrom(H, b) ==
    /\ budget = b
    /\ ctxs = H.ctxs
    /\ kls = H.kls
    /\ binds = ZeroBinds
    /\ buf = <<>>
    /\ hist = NotFresh(Len(H.ctxs))
    /\ last = [op |-> "init"]
    /\ nops = 0
    /\ array = EmptyArray
    /\ series = <<>>

\* ----------------------------------------------------------------- actions
\* Each action is one call, start to return.  The call's result is computed
\* once (`\E R \in {call}`) and the state is assigned from it.

\* Alloc_Context(0), finished by its caller: the rootvar gets its header
DoAlloc(kind) ==
    /\ Step
    /\ \E c \in {Len(ctxs) + 1} :
       \E H2 \in {[Alloc_Context(Heap, 0)
                      EXCEPT !.ctxs[c].vars[1] = CtxVal(kind, c)]} :
           /\ SetHeap(H2)
           /\ hist' = Append(hist, [fresh |-> TRUE, log |-> <<>>])
           /\ last' = [op |-> "Alloc", ctx |-> c, pre |-> Heap]
    /\ UNCHANGED <<binds, buf>>

\* Append_Context_Core(c, NULL, sym, lookahead); the caller has looked the
\* symbol up first and appends only when it was not found
DoAppend(c, sym, lookahead) ==
    /\ Step
    /\ Find_Word_In_Context(Heap, c, sym, TRUE) = 0
    /\ \E A \in {Append_Context_Core(Heap, c, NoWord, sym, lookahead)} :
           /\ SetHeap(A.H)
           /\ hist' = [hist EXCEPT ![c].log =
                          Append(@, [sym |-> sym, lookahead |-> lookahead,
                                     val |-> VOID_VALUE])]
           /\ last' = [op |-> "Append", ctx |-> c, sym |-> sym,
                       lookahead |-> lookahead, slot |-> A.slot,
                       pre |-> Heap]
    /\ UNCHANGED <<binds, buf>>

\* a store through the var slot that an append returned
DoSetVar(c, n, v) ==
    /\ Step
    /\ n \in 1 .. CTX_LEN(Heap, c)
    /\ CTX_VAR(Heap, c, n) # v
    /\ SetHeap([Heap EXCEPT !.ctxs[c].vars[n + 1] = v])
    /\ hist' = [hist EXCEPT ![c].log =
                   IF n <= Len(@) THEN [@ EXCEPT ![n].val = v] ELSE @]
    /\ last' = [op |-> "SetVar", ctx |-> c, slot |-> n, pre |-> Heap]
    /\ UNCHANGED <<binds, buf>>

DoExpand(c, delta) ==
    /\ Step
    /\ \E H1 \in {Expand_Context(Heap, c, delta)} : SetHeap(H1)
    /\ hist' = Untouched(hist, {c})
    /\ last' = [op |-> "Expand", ctx |-> c, delta |-> delta, pre |-> Heap]
    /\ UNCHANGED <<binds, buf>>

DoCopy(src, extra) ==
    /\ Step
    /\ ANY_CONTEXT(CTX_VALUE(Heap, src))
    /\ \E H1 \in {Copy_Context_Shallow_Extra(Heap, src, extra)} : SetHeap(H1)
    /\ hist' = Append(Untouched(hist, {src}), [fresh |-> FALSE, log |-> <<>>])
    /\ last' = [op |-> "Copy", src |-> src, extra |-> extra,
                ctx |-> Len(ctxs) + 1, pre |-> Heap]
    /\ UNCHANGED <<binds, buf>>

DoMake(kind, spec, head, opt_parent) ==
    /\ Step
    /\ BindTableEmpty(binds) /\ buf = <<>>
    /\ \E M \in {Make_Selfish_Context_Detect(Heap, Coll, kind, spec, head,
                                             opt_parent)} :
           /\ SetHeap(M.H)
           /\ SetColl(M.C)
           /\ hist' = Append(Untouched(hist, {opt_parent}),
                             [fresh |-> FALSE, log |-> <<>>])
           /\ last' = [op |-> "Make", kind |-> kind, spec |-> spec,
                       head |-> head, parent |-> opt_parent,
                       ctx |-> M.context, self_index |-> M.self_index,
                       pre |-> Heap]

DoMerge(parent1, parent2) ==
    /\ Step
    /\ BindTableEmpty(binds) /\ buf = <<>>
    /\ CTX_TYPE(Heap, parent1) = CTX_TYPE(Heap, parent2)
    /\ \E M \in {Merge_Contexts_Selfish(Heap, Coll, parent1, parent2)} :
           /\ SetHeap(M.H)
           /\ SetColl(M.C)
           /\ hist' = Append(Untouched(hist, {parent1, parent2}),
                             [fresh |-> FALSE, log |-> <<>>])
           /\ last' = [op |-> "Merge", parent1 |-> parent1,
                       parent2 |-> parent2, ctx |-> M.child,
                       self_index |-> M.self_index, failed |-> FALSE,
                       pre |-> Heap]

DoResolve(target, source, only_words, all, expand) ==
    /\ Step
    /\ BindTableEmpty(binds) /\ buf = <<>>
    /\ \E R \in {Resolve_Context(Heap, Coll, target, source, only_words,
                                 all, expand)} :
           /\ SetHeap(R.H)
           /\ SetColl(R.C)
           /\ hist' = Untouched(hist, {target, source})
           /\ last' = [op |-> "Resolve", target |-> target,
                       source |-> source, only_words |-> only_words,
                       all |-> all, expand |-> expand, pre |-> Heap]

\* Collect_Keylist_Managed called directly, by a caller that reads the key
\* list it gets and drops it (`result`; a new key list is then garbage).
\* When the scan fails, the reset loop of the failure path walks the cells
\* past the buffer's length too: any set in `stales` may be what it finds there.
DoCollectKeylist(head, prior, flags, stales) ==
    /\ Step
    /\ BindTableEmpty(binds) /\ buf = <<>>
    /\ \E K0 \in {Collect_Keylist_Managed(Heap, Coll, head, prior, flags,
                                          {})} :
       \E stale \in IF K0.failed THEN stales ELSE {{}} :
       \E K \in {IF stale = {} THEN K0
                 ELSE Collect_Keylist_Managed(Heap, Coll, head, prior, flags,
                                              stale)} :
           /\ SetHeap([K.H EXCEPT !.kls = SubSeq(@, 1, Len(kls))])
           /\ SetColl([binds |-> K.C.binds, buf |-> K.C.buf])
           /\ hist' = Untouched(hist, {prior})
           /\ last' = [op |-> "CollectKeylist", head |-> head,
                       prior |-> prior, flags |-> flags,
                       keylist |-> K.keylist,
                       result |-> IF K.failed THEN <<>>
                                  ELSE <<K.H.kls[K.keylist]>>,
                       self_index |-> K.self_index,
                       failed |-> K.failed, pre |-> Heap]

DoCollectWords(head, has_prior, prior_head, flags) ==
    /\ Step
    /\ BindTableEmpty(binds) /\ buf = <<>>
    /\ \E W \in {Collect_Words(Coll, head, has_prior, prior_head, flags)} :
           /\ SetColl(W.C)
           /\ last' = [op |-> "CollectWords", head |-> head,
                       has_prior |-> has_prior, prior_head |-> prior_head,
                       flags |-> flags, array |-> W.array,
                       failed |-> FALSE, pre |-> Heap]
    /\ UNCHANGED <<ctxs, kls, hist>>

\* ------------------------------------------------------------------ inputs
WriteVals == {IntVal(1), IntVal(2)}

Heads == {
    <<>>,
    <<SetWord(2), IntItem(1), SetWord(4), IntItem(2)>>,
    <<SetWord(SYM_SELF), SetWord(5), Word(3)>>
}

OnlyWords == {OnlyVoid, OnlyIndex(0), OnlyIndex(2),
              OnlyBlock(<<Word(2), SetWord(4), IntItem(1)>>)}

\* ============================================================ Spec
\* every operation on contexts, from two contexts
StartShapes == {sh \in Shapes : Len(sh.entries) = 1}

Init ==
    \E H \in StartHeaps(StartShapes, StartShapes, {FALSE}) :
        InitFrom(H, MaxOps)

Next ==
    \/ \E kind \in Kinds : DoAlloc(kind)
    \/ \E c \in Ctxs, sym \in UserSyms, la \in BOOLEAN : DoAppend(c, sym, la)
    \/ \E c \in Ctxs, n \in 1 .. 2, v \in WriteVals : DoSetVar(c, n, v)
    \/ \E c \in Ctxs, delta \in 0 .. MaxDelta : DoExpand(c, delta)
    \/ \E src \in Ctxs, extra \in 0 .. MaxDelta : DoCopy(src, extra)
    \/ \E head \in Heads, p \in {NULL} \cup ValidCtxs :
          DoMake("object", NULL, head, p)
    \/ \E p1 \in ValidCtxs, p2 \in ValidCtxs : DoMerge(p1, p2)
    \/ \E t \in ValidCtxs, s \in ValidCtxs, ow \in OnlyWords,
          all \in BOOLEAN, ex \in BOOLEAN : DoResolve(t, s, ow, all, ex)

Spec == Init /\ [][Next]_vars

\* C1: in every reachable state every (non-stack) context has a key list and
\* a var list of equal length, slot 0 included, also when the key list is
\* shared with a context that another operation was applied to.
KeyVarLengthsEqual ==
    \A c \in Ctxs : Len(CTX_KEYS(Heap, c)) = Len(CTX_VARLIST(Heap, c))

\* ========================================================= SpecCow
\* sharing and copy-on-write of key lists: copy, expand, append
CowShapes ==
    {sh \in Shapes : sh.kind = "object" /\ Len(sh.entries) = 2
                     /\ (sh.selfish <=> sh.entries[1].sym = 2)}

InitCow ==
    \E H \in StartHeaps(CowShapes, CowShapes, BOOLEAN) :
        InitFrom(H, MaxOps)

NextCow ==
    \/ \E c \in Ctxs, sym \in UserSyms, la \in BOOLEAN : DoAppend(c, sym, la)
    \/ \E c \in Ctxs, delta \in 0 .. MaxDelta : DoExpand(c, delta)
    \/ \E src \in Ctxs, extra \in 0 .. MaxDelta : DoCopy(src, extra)

SpecCow == InitCow /\ [][NextCow]_vars

\* contexts of heap H, other than c, that hold key list k
Holders(H, k, c) ==
    {d \in 1 .. Len(H.ctxs) : d # c /\ CTX_KEYLIST(H, d) = k}

\* C2: Copy_Context_Shallow_Extra(src, extra): with extra = 0 the copy holds
\* src's own key list, which is flagged SHARED; with extra > 0 it holds a new
\* key list with the same keys, not SHARED, carrying src's meta.  The var
\* list is a new array with the same values in slots 1.., and its rootvar
\* points at the new var list.
CopySharesOrCopiesKeylist ==
    last.op = "Copy" =>
        LET src == last.src
            dest == last.ctx
            k == CTX_KEYLIST(Heap, dest)
        IN  /\ last.extra = 0 =>
                /\ k = CTX_KEYLIST(last.pre, src)
                /\ k = CTX_KEYLIST(Heap, src)
                /\ kls[k].shared
            /\ last.extra > 0 =>
                /\ k \notin 1 .. Len(last.pre.kls)
                /\ k # CTX_KEYLIST(Heap, src)
                /\ kls[k].keys = CTX_KEYS(last.pre, src)
                /\ ~kls[k].shared
                /\ kls[k].meta = CTX_META(last.pre, src)
            /\ dest \notin 1 .. Len(last.pre.ctxs)
            /\ Len(CTX_VARLIST(Heap, dest))
                   = Len(CTX_VARLIST(last.pre, src))
            /\ \A n \in 1 .. CTX_LEN(Heap, dest) :
                   CTX_VAR(Heap, dest, n) = CTX_VAR(last.pre, src, n)
            /\ CTX_VALUE(Heap, dest).ref = dest
            /\ CTX_TYPE(Heap, dest) = CTX_TYPE(last.pre, src)

\* a copy with extra room of a context that has keys and a meta object,
\* made while another copy shares the source's key list
CopyWitness ==
    /\ last.op = "Copy"
    /\ last.extra > 0
    /\ CTX_META(last.pre, last.src) # NULL
    /\ CTX_LEN(Heap, last.ctx) >= 2
    /\ last.pre.kls[CTX_KEYLIST(last.pre, last.src)].shared
    /\ Holders(Heap, CTX_KEYLIST(Heap, last.src), last.src) # {}

\* C3: Expand_Context(context, delta), delta > 0, on a SHARED key list leaves
\* every key list that existed before the call as it was (keys, length,
\* flags, meta) and every other context on its key list; the expanded context
\* gets a new key list with the same keys and meta, not SHARED.  With
\* delta = 0 the context keeps its key list.
ExpandCopiesSharedKeylist ==
    last.op = "Expand" =>
        LET c == last.ctx
            k0 == CTX_KEYLIST(last.pre, c)
            k == CTX_KEYLIST(Heap, c)
        IN  /\ (last.delta > 0 /\ last.pre.kls[k0].shared) =>
                /\ \A j \in 1 .. Len(last.pre.kls) : kls[j] = last.pre.kls[j]
                /\ \A d \in Ctxs \ {c} :
                       CTX_KEYLIST(Heap, d) = CTX_KEYLIST(last.pre, d)
                /\ k \notin 1 .. Len(last.pre.kls)
                /\ kls[k].keys = last.pre.kls[k0].keys
                /\ kls[k].meta = last.pre.kls[k0].meta
                /\ ~kls[k].shared
            /\ last.delta = 0 => k = k0

\* an expansion of a context whose key list (two keys or more, with a meta
\* object) another context holds too
ExpandWitness ==
    /\ last.op = "Expand"
    /\ last.delta > 0
    /\ LET k0 == CTX_KEYLIST(last.pre, last.ctx) IN
       /\ last.pre.kls[k0].shared
       /\ last.pre.kls[k0].meta # NULL
       /\ Len(last.pre.kls[k0].keys) >= 3
       /\ Holders(last.pre, k0, last.ctx) # {}

\* C4: Append_Context_Core on a context whose key list another context holds
\* too leaves the key list seen by every other holder as it was.
AppendLeavesOtherHolders ==
    last.op = "Append" =>
        \A d \in 1 .. Len(last.pre.ctxs) :
            d # last.ctx => CTX_KEYS(Heap, d) = CTX_KEYS(last.pre, d)

\* ====================================================== SpecAppend
\* appends to contexts fresh from Alloc_Context(0)
InitAppend == InitFrom(EmptyHeap, MaxAppendOps)

NextAppend ==
    \/ \E kind \in Kinds : DoAlloc(kind)
    \/ \E c \in Ctxs, sym \in UserSyms, la \in BOOLEAN : DoAppend(c, sym, la)
    \/ \E c \in Ctxs, n \in 1 .. 2, v \in WriteVals : DoSetVar(c, n, v)

SpecAppend == InitAppend /\ [][NextAppend]_vars

\* C5: after N appends of s1..sN to a fresh Alloc_Context(0) context its
\* length is N, key i is an all-types typeset for si with the lookback flag as
\* requested, and var i holds what was last stored through the slot of the
\* i-th call (void if nothing was); each call grows both lists by one and
\* returns the new last var slot, which holds void.
FreshAppendsInOrder ==
    /\ \A c \in Ctxs :
           hist[c].fresh =>
               LET log == hist[c].log IN
               /\ CTX_LEN(Heap, c) = Len(log)
               /\ Len(CTX_KEYS(Heap, c)) = Len(log) + 1
               /\ \A i \in 1 .. Len(log) :
                      /\ CTX_KEY(Heap, c, i) =
                             [sym |-> log[i].sym, bits |-> "ALL_64",
                              hidden |-> FALSE, locked |-> FALSE,
                              lookback |-> log[i].lookahead]
                      /\ CTX_VAR(Heap, c, i) = log[i].val
    /\ (last.op = "Append" /\ hist[last.ctx].fresh) =>
           /\ last.slot = CTX_LEN(Heap, last.ctx)
           /\ CTX_VAR(Heap, last.ctx, last.slot).t = "void"
           /\ Len(CTX_VARLIST(Heap, last.ctx))
                  = Len(CTX_VARLIST(last.pre, last.ctx)) + 1
           /\ Len(CTX_KEYS(Heap, last.ctx))
                  = Len(CTX_KEYS(last.pre, last.ctx)) + 1

\* two appends, one with the lookback flag, the first slot written since
AppendWitness ==
    \E c \in Ctxs :
        /\ hist[c].fresh
        /\ Len(hist[c].log) = 2
        /\ hist[c].log[1].val.t = "integer"
        /\ hist[c].log[2].val.t = "void"
        /\ hist[c].log[1].lookahead # hist[c].log[2].lookahead
        /\ last.op = "SetVar"

\* ===================================================== SpecCollect
\* collection passes: key scans, word scans and merges
CollectShape(selfish) ==
    [kind |-> "object", selfish |-> selfish,
     entries |-> <<Entry(2, FALSE, IntVal(1)), Entry(3, TRUE, IntVal(2))>>]

CollectHeads == {
    <<>>,
    <<SetWord(4), Block(<<Word(3), SetWord(5), SetWord(4)>>)>>,
    <<SetWord(SYM_SELF), Word(5), SetWord(2)>>
}

KeyFlagSets ==
    SUBSET {COLLECT_ANY_WORD, COLLECT_DEEP, COLLECT_NO_DUP,
            COLLECT_ENSURE_SELF}
WordFlagSets == SUBSET {COLLECT_ANY_WORD, COLLECT_DEEP}

\* what the cells past the buffer's length may hold
StaleCells == SUBSET {SYM_SELF, 3}

\* context 1 has no self key, context 2 has one
InitCollect ==
    \E H \in StartHeaps({CollectShape(FALSE)}, {CollectShape(TRUE)},
                         {FALSE}) :
        InitFrom(H, MaxCollectOps)

NextCollect ==
    \/ \E head \in CollectHeads, prior \in {NULL} \cup ValidCtxs,
          flags \in KeyFlagSets :
          DoCollectKeylist(head, prior, flags, StaleCells)
    \/ \E head \in CollectHeads, has_prior \in BOOLEAN :
          \E prior_head \in IF has_prior THEN CollectHeads ELSE {<<>>},
             flags \in WordFlagSets :
              DoCollectWords(head, has_prior, prior_head, flags)
    \/ \E p1 \in ValidCtxs, p2 \in ValidCtxs : DoMerge(p1, p2)

SpecCollect == InitCollect /\ [][NextCollect]_vars

\* C6: after every normally returning Collect_Keylist_Managed, Collect_Words
\* and Merge_Contexts_Selfish (and so before the next one) the Binding Table
\* is all-zero and the Collection Buffer has length 0.
CleanAfterCollection ==
    (last.op \in {"CollectKeylist", "CollectWords", "Merge"} /\ ~last.failed)
        => (\A sym \in AllSyms : binds[sym] = 0) /\ Len(buf) = 0

\* a second pass, with a prior context and the forced self key, that found
\* new keys
CollectWitness ==
    /\ nops = 2
    /\ last.op = "CollectKeylist"
    /\ ~last.failed
    /\ last.prior # NULL
    /\ COLLECT_ENSURE_SELF \in last.flags
    /\ last.self_index = 1
    /\ last.keylist \notin 1 .. Len(last.pre.kls)
    /\ Len(last.result[1].keys) > Len(CTX_KEYS(last.pre, last.prior)) + 1

\* C7: when the scan meets an already recorded symbol under COLLECT_NO_DUP,
\* then at the moment the failure is raised every Binding Table entry is zero
\* again and the Collection Buffer has length 0.
CleanAtDupFailure ==
    (last.op = "CollectKeylist" /\ last.failed)
        => (\A sym \in AllSyms : binds[sym] = 0) /\ Len(buf) = 0

\* a failure inside a nested block, after prior keys, the forced self key
\* and a new key were recorded
DupFailureWitness ==
    /\ last.op = "CollectKeylist"
    /\ last.failed
    /\ last.prior # NULL
    /\ CTX_LEN(Heap, last.prior) >= 2
    /\ COLLECT_ENSURE_SELF \in last.flags
    /\ last.self_index = 1
    /\ COLLECT_DEEP \in last.flags
    /\ COLLECT_NO_DUP \in last.flags
    /\ last.head = <<SetWord(4), Block(<<Word(3), SetWord(5), SetWord(4)>>)>>

\* ===================================================== SpecResolve
\* Resolve_Context between two contexts, for every form of only_words
InitResolve ==
    \E H \in StartHeaps(Shapes, Shapes, {FALSE}) : InitFrom(H, MaxOps)

NextResolve ==
    \/ \E t \in ValidCtxs, s \in ValidCtxs, ow \in OnlyWords,
          all \in BOOLEAN, ex \in BOOLEAN : DoResolve(t, s, ow, all, ex)
    \/ \E c \in Ctxs, n \in 1 .. 2, v \in WriteVals : DoSetVar(c, n, v)

SpecResolve == InitResolve /\ [][NextResolve]_vars

\* C8: when Resolve_Context returns, every Binding Table entry is zero and
\* the Collection Buffer has length 0, whatever only_words (absent, a start
\* index, a block of words), copy_all and allow_expand are.
ResolveLeavesTableClean ==
    last.op = "Resolve" =>
        (\A sym \in AllSyms : binds[sym] = 0) /\ Len(buf) = 0

\* ======================================================= SpecMerge
\* Merge_Contexts_Selfish of two contexts, with and without a self key
MergeShapes == {sh \in Shapes : Len(sh.entries) # 1 \/ sh.kind = "error"}

InitMerge ==
    \E H \in StartHeaps(MergeShapes, MergeShapes, {FALSE}) :
        InitFrom(H, MaxOps)

NextMerge ==
    \/ \E p1 \in ValidCtxs, p2 \in ValidCtxs : DoMerge(p1, p2)
    \/ \E c \in Ctxs, n \in 1 .. 2, v \in WriteVals : DoSetVar(c, n, v)

SpecMerge == InitMerge /\ [][NextMerge]_vars

\* C9: the child's keys are parent1's keys, in order, followed by parent2's
\* keys whose symbol parent1 does not have, in order; apart from self, the
\* child's value for a symbol is parent2's if parent2 has the symbol and
\* parent1's otherwise, as a clone (same content, new series) for a block;
\* the child has parent1's type.
MergeKeysAndValues ==
    last.op = "Merge" =>
        LET P == last.pre
            child == last.ctx
            keys1 == Tail(CTX_KEYS(P, last.parent1))
            keys2 == Tail(CTX_KEYS(P, last.parent2))
            vars1 == Tail(CTX_VARLIST(P, last.parent1))
            vars2 == Tail(CTX_VARLIST(P, last.parent2))
            Canon(key) == SYMBOL_TO_CANON(key.sym)
            InParent1(key) == \E i \in 1 .. Len(keys1) :
                                  Canon(keys1[i]) = Canon(key)
            NotInParent1(key) == ~InParent1(key)
            SameOrClone(v, from) ==
                IF from.t = "block"
                THEN v.t = "block" /\ v.n = from.n /\ v.ref # from.ref
                ELSE v = from
        IN  /\ Tail(CTX_KEYS(Heap, child))
                   = keys1 \o SelectSeq(keys2, NotInParent1)
            /\ Len(CTX_VARLIST(Heap, child)) = Len(CTX_KEYS(Heap, child))
            /\ \A n \in 1 .. CTX_LEN(Heap, child) :
                   LET canon == Canon(CTX_KEY(Heap, child, n))
                       v == CTX_VAR(Heap, child, n)
                       from2 == {j \in 1 .. Len(keys2) :
                                    Canon(keys2[j]) = canon}
                       from1 == {i \in 1 .. Len(keys1) :
                                    Canon(keys1[i]) = canon}
                   IN  canon # SYM_SELF =>
                           IF from2 # {}
                           THEN \A j \in from2 : SameOrClone(v, vars2[j])
                           ELSE /\ from1 # {}
                                /\ \A i \in from1 : SameOrClone(v, vars1[i])
            /\ CTX_TYPE(Heap, child) = CTX_TYPE(P, last.parent1)
            /\ CTX_VALUE(Heap, child).ref = child

\* a merge where parent2 overrides a symbol of parent1 with a block and
\* brings a new symbol, and parent1 keeps a symbol of its own
MergeWitness ==
    /\ last.op = "Merge"
    /\ last.parent1 # last.parent2
    /\ LET P == last.pre
           syms1 == {SYMBOL_TO_CANON(CTX_KEY(P, last.parent1, n).sym) :
                        n \in 1 .. CTX_LEN(P, last.parent1)} \ {SYM_SELF}
           syms2 == {SYMBOL_TO_CANON(CTX_KEY(P, last.parent2, n).sym) :
                        n \in 1 .. CTX_LEN(P, last.parent2)} \ {SYM_SELF}
       IN  /\ syms1 \ syms2 # {}
           /\ syms2 \ syms1 # {}
           /\ \E n \in 1 .. CTX_LEN(P, last.parent2) :
                  /\ CTX_VAR(P, last.parent2, n).t = "block"
                  /\ SYMBOL_TO_CANON(CTX_KEY(P, last.parent2, n).sym)
                         \in syms1

\* C10: the context returned by Merge_Contexts_Selfish has exactly one key
\* with symbol self, and the value in that slot is the child's own header
\* value, whether both, one or neither parent has a self key.
MergeHasOneSelf ==
    last.op = "Merge" =>
        LET child == last.ctx
            selfs == {n \in 1 .. CTX_LEN(Heap, child) :
                         SYMBOL_TO_CANON(CTX_KEY(Heap, child, n).sym)
                             = SYM_SELF}
        IN  /\ Cardinality(selfs) = 1
            /\ \A n \in selfs :
                   CTX_VAR(Heap, child, n) = CTX_VALUE(Heap, child)

\* ================================================== SpecResolveCopy
\* Resolve_Context between two contexts whose keys may be locked
\* (TYPESET_FLAG_LOCKED on key `lock` of the first context; 0: none)
ResolveShapes ==
    {sh \in Shapes : sh.kind = "object" /\ Len(sh.entries) = 2}
    \cup {sh \in Shapes : sh.kind = "object" /\ ~sh.selfish
                          /\ sh.entries = <<Entry(5, TRUE, IntVal(2))>>}

InitResolveCopy ==
    \E H \in StartHeaps(ResolveShapes, ResolveShapes, {FALSE}),
       lock \in 0 .. 2 :
        InitFrom(IF lock \in 1 .. CTX_LEN(H, 1)
                 THEN [H EXCEPT !.kls[CTX_KEYLIST(H, 1)].keys[lock + 1].locked
                                    = TRUE]
                 ELSE H,
                 MaxOps)

NextResolveCopy ==
    \/ \E t \in ValidCtxs, s \in ValidCtxs, ow \in OnlyWords,
          all \in BOOLEAN, ex \in BOOLEAN : DoResolve(t, s, ow, all, ex)
    \/ \E c \in Ctxs, n \in 1 .. 2, v \in WriteVals : DoSetVar(c, n, v)

SpecResolveCopy == InitResolveCopy /\ [][NextResolveCopy]_vars

\* C11: Resolve_Context with copy_all false leaves every target slot that
\* held a non-void value as it was, whatever the source holds for the
\* symbol; with copy_all true, every slot of the target whose symbol is
\* selected (by only_words) and is a key of the source, and whose key is not
\* locked, holds the source's value for that symbol afterwards.
ResolveKeepsOrOverwrites ==
    last.op = "Resolve" =>
        LET P == last.pre
            t == last.target
            s == last.source
            ow == last.only_words
            i == IF ow.i = 0 THEN 1 ELSE ow.i
            Canon(c, n) == SYMBOL_TO_CANON(CTX_KEY(P, c, n).sym)
            Selected(n) ==
                CASE ow.ow = "void" -> TRUE
                  [] ow.ow = "integer" -> n >= i
                  [] OTHER -> \E w \in 1 .. Len(ow.words) :
                                  /\ (IS_WORD(ow.words[w])
                                      \/ IS_SET_WORD(ow.words[w]))
                                  /\ VAL_WORD_CANON(ow.words[w])
                                         = Canon(t, n)
        IN  \A n \in 1 .. CTX_LEN(P, t) :
                /\ (~last.all /\ ~IS_VOID(CTX_VAR(P, t, n)))
                       => CTX_VAR(Heap, t, n) = CTX_VAR(P, t, n)
                /\ (last.all /\ Selected(n) /\ ~CTX_KEY(P, t, n).locked)
                       => \A m \in 1 .. CTX_LEN(P, s) :
                              Canon(s, m) = Canon(t, n)
                                  => CTX_VAR(Heap, t, n) = CTX_VAR(P, s, m)

\* a resolve of every word with copy_all true: one key of the target is
\* locked and keeps its value, another one is overwritten by a different
\* value of the source
ResolveWitness ==
    /\ last.op = "Resolve"
    /\ last.all
    /\ last.only_words.ow = "void"
    /\ last.target # last.source
    /\ LET P == last.pre
           t == last.target
           s == last.source
           Common(n, m) == SYMBOL_TO_CANON(CTX_KEY(P, t, n).sym)
                               = SYMBOL_TO_CANON(CTX_KEY(P, s, m).sym)
       IN  \E n1, n2 \in 1 .. CTX_LEN(P, t), m1, m2 \in 1 .. CTX_LEN(P, s) :
               /\ Common(n1, m1) /\ Common(n2, m2)
               /\ CTX_KEY(P, t, n1).locked
               /\ CTX_VAR(P, t, n1) # CTX_VAR(P, s, m1)
               /\ CTX_VAR(Heap, t, n1) = CTX_VAR(P, t, n1)
               /\ ~CTX_KEY(P, t, n2).locked
               /\ CTX_VAR(P, t, n2) # CTX_VAR(P, s, m2)
               /\ CTX_VAR(Heap, t, n2) = CTX_VAR(P, s, m2)

\* ====================================================== SpecToArray
\* Context_To_Array of a context that appends and slot stores have changed;
\* key `hide` of the start context is hidden (0: none but self)
DoToArray(c, mode) ==
    /\ Step
    /\ \E block \in {Context_To_Array(Heap, c, mode)} :
           last' = [op |-> "ToArray", ctx |-> c, mode |-> mode,
                    block |-> block, pre |-> Heap]
    /\ UNCHANGED <<ctxs, kls, binds, buf, hist>>

InitToArray ==
    \E H \in Built({EmptyHeap}, Shapes), hide \in 0 .. 2 :
        InitFrom(IF hide \in 1 .. CTX_LEN(H, 1)
                 THEN [H EXCEPT !.kls[CTX_KEYLIST(H, 1)].keys[hide + 1].hidden
                                    = TRUE]
                 ELSE H,
                 MaxOps)

NextToArray ==
    \/ \E c \in ValidCtxs, mode \in 1 .. 3 : DoToArray(c, mode)
    \/ \E c \in Ctxs, sym \in UserSyms, la \in BOOLEAN : DoAppend(c, sym, la)
    \/ \E c \in Ctxs, n \in 1 .. 2, v \in WriteVals : DoSetVar(c, n, v)

SpecToArray == InitToArray /\ [][NextToArray]_vars

\* C12: Context_To_Array(context, 3) returns, for the keys of the context
\* that are not hidden, in key order, the flat sequence set-word(key symbol),
\* value; mode 1 returns only the words (as words) and mode 2 only the
\* values, in the same order; a hidden key contributes nothing; every word
\* of the result is bound to the context, with an index n such that key n of
\* the context has the word's symbol.
ToArrayListsVisibleKeys ==
    last.op = "ToArray" =>
        LET c == last.ctx
            block == last.block
            Visible(n) == ~CTX_KEY(Heap, c, n).hidden
            vis == SelectSeq([n \in 1 .. CTX_LEN(Heap, c) |-> n], Visible)
            per == IF last.mode = 3 THEN 2 ELSE 1
            IsWordOf(cell, n, wt) ==
                /\ DOMAIN cell = DOMAIN NoWord
                /\ cell.wt = wt
                /\ cell.sym = CTX_KEY(Heap, c, n).sym
                /\ cell.bound /\ cell.ctx = c
                /\ cell.index \in 1 .. CTX_LEN(Heap, c)
                /\ CTX_KEY(Heap, c, cell.index).sym = cell.sym
        IN  /\ Len(block) = per * Len(vis)
            /\ \A k \in 1 .. Len(vis) :
                   CASE last.mode = 3 ->
                            /\ IsWordOf(block[2 * k - 1], vis[k], "set-word")
                            /\ block[2 * k] = CTX_VAR(Heap, c, vis[k])
                     [] last.mode = 1 -> IsWordOf(block[k], vis[k], "word")
                     [] OTHER -> block[k] = CTX_VAR(Heap, c, vis[k])

\* words and values of a context that has a hidden key before two visible
\* ones
ToArrayWitness ==
    /\ last.op = "ToArray"
    /\ last.mode = 3
    /\ Len(last.block) = 4
    /\ CTX_KEY(Heap, last.ctx, 1).hidden
    /\ CTX_LEN(Heap, last.ctx) = 3

\* ====================================================== SpecModify
\* one Modify_Array call on an array of up to MaxArrLen cells, or one
\* Modify_String_Or_Binary call on a series
ModifyStep ==
    /\ nops < budget /\ nops' = nops + 1 /\ budget' = budget
    /\ UNCHANGED <<ctxs, kls, binds, buf, hist>>

\* VAL_LEN_AT of a source block
SrcLenAt(arr, src) ==
    LET n == Len(IF src.self THEN arr.cells ELSE src.arr.cells)
    IN  IF src.index >= n THEN 0 ELSE n - src.index

\* A spliced source is an array (assert at line 85); the part of an insert or
\* append is within the source (the loop reads `ilen` cells of it).
DoModifyArray(verb, dst_idx, src, flags, dst_len, dups) ==
    /\ ModifyStep
    /\ AM_SPLICE \in flags => src.st # "value"
    /\ (AM_SPLICE \in flags /\ AM_PART \in flags /\ verb # "change"
        /\ src.st = "block") => dst_len <= SrcLenAt(array, src)
    /\ \E R \in {Modify_Array(verb, array, dst_idx, src, flags, dst_len,
                              dups)} :
           /\ array' = R.arr
           /\ last' = [op |-> "ModifyArray", verb |-> verb,
                       dst_idx |-> dst_idx, src |-> src, flags |-> flags,
                       dst_len |-> dst_len, dups |-> dups,
                       index |-> R.index, past |-> R.past, pre |-> array]
    /\ UNCHANGED series

Cell(n, nl) == [val |-> IntVal(n), nl |-> nl]

\* the arrays [], [10], [10 20], [10 20 30] with a newline before the cells
\* at the positions `nls`
ArrayOf(len, nls, nl_tail) ==
    [cells |-> [p \in 1 .. len |-> Cell(10 * p, p \in nls)],
     nl_tail |-> nl_tail]

StartArrays ==
    {ArrayOf(len, nls, t) :
        len \in 0 .. MaxArrLen, nls \in {{}, {1}, {2, 3}}, t \in BOOLEAN}

ModifySources ==
    {NulledSrc, ValueSrc(Cell(40, FALSE)), ValueSrc(Cell(40, TRUE)),
     EMPTY_BLOCK}
    \cup {BlockSrc([cells |-> <<Cell(41, FALSE), Cell(42, TRUE)>>,
                    nl_tail |-> t], i) : t \in BOOLEAN, i \in 0 .. 2}
    \cup {SelfSrc(i) : i \in 0 .. MaxArrLen}

\* a UTF-8 string series and a BINARY! series of the given bytes
Str(bytes) == [bytes |-> bytes, is_string |-> TRUE,
               length |-> STR_INDEX_AT(bytes, Len(bytes)), bmk |-> NoBookmark]
Bin(bytes) == [Str(bytes) EXCEPT !.is_string = FALSE, !.length = Len(bytes)]

\* "", "A", "Ae'" (e' is C3 A9), "A`B" (A` is C3 80), #{01C8}, and a string
\* of SIZEOF_REBVAL + 1 letters with a bookmark at its codepoint 3
StartSeries ==
    {Str(<<>>), Str(<<65>>), Str(<<65, 195, 169>>), Str(<<195, 128, 66>>),
     Bin(<<1, 200>>),
     [Str([k \in 1 .. SIZEOF_REBVAL + 1 |-> 65]) EXCEPT
         !.bmk = [has |-> TRUE, index |-> 3, offset |-> 3]]}

SeriesSrc(kind, bytes, index, is_string) ==
    [kind |-> kind, bytes |-> bytes, n |-> 0, index |-> index,
     self |-> FALSE, is_string |-> is_string,
     length |-> STR_INDEX_AT(bytes, Len(bytes))]

StringSources ==
    {NulledValue,
     SeriesSrc("char", <<66>>, 0, FALSE),
     SeriesSrc("char", <<195, 169>>, 0, FALSE),
     SeriesSrc("block", <<66, 195, 169>>, 0, FALSE),
     SeriesSrc("tag", <<66>>, 0, TRUE),
     SeriesSrc("binary", <<195, 128, 66>>, 1, TRUE)}
    \cup {[NulledValue EXCEPT !.kind = "integer", !.n = n] :
             n \in {7, 200, 300}}
    \cup {SeriesSrc("binary", <<1, 200>>, i, FALSE) : i \in 0 .. 1}
    \cup {SeriesSrc("binary", <<195, 169, 65>>, i, TRUE) : i \in 0 .. 2}
    \cup {SeriesSrc("text", <<195, 169, 66>>, i, TRUE) : i \in 0 .. 1}
    \cup {[NulledValue EXCEPT !.kind = kind, !.self = TRUE, !.index = i] :
             kind \in {"text", "binary"}, i \in 0 .. 2}

\* The destination is writable, a text value is on a string series, and
\* indexes are within their series; the part of an insert or append is at
\* most the length of the source (memcpy reads that many bytes of it).
DoModifyString(dst, verb, src, flags, part, dups, moved) ==
    /\ ModifyStep
    /\ ~dst.binary => series.is_string
    /\ dst.index <= (IF dst.binary THEN Len(series.bytes) ELSE series.length)
    /\ src.self =>
           /\ src.kind = "text" => series.is_string
           /\ src.index <= (IF src.kind = "binary" THEN Len(series.bytes)
                            ELSE series.length)
    /\ \E S \in {Modify_Source(series, dst, src, -1)} :
           (verb # "change" /\ AM_PART \in flags /\ S.fail = "")
               => part <= S.len
    /\ \E R \in {Modify_String_Or_Binary(series, dst, verb, src, flags, part,
                                         dups, moved)} :
           /\ series' = R.ser
           /\ last' = [op |-> "ModifyString", dst |-> dst, verb |-> verb,
                       src |-> src, flags |-> flags, part |-> part,
                       dups |-> dups, moved |-> moved, index |-> R.index,
                       fail |-> R.fail, pre |-> series]
    /\ UNCHANGED array

InitModify ==
    /\ budget = MaxModifyOps
    /\ ctxs = <<>> /\ kls = <<>> /\ binds = ZeroBinds /\ buf = <<>>
    /\ hist = <<>> /\ last = [op |-> "init"] /\ nops = 0
    /\ \/ array \in StartArrays /\ series = Str(<<>>)
       \/ array = EmptyArray /\ series \in StartSeries

NextModify ==
    \/ /\ nops < budget
       /\ \E verb \in {"insert", "append", "change"},
             dst_idx \in 0 .. MaxArrLen + 1, src \in ModifySources,
             flags \in SUBSET {AM_SPLICE, AM_PART, AM_LINE},
             dst_len \in 0 .. MaxArrLen, dups \in 0 .. MaxDups :
              /\ src.st = "block" =>
                     src.index <= Len(IF src.self THEN array.cells
                                      ELSE src.arr.cells)
              /\ DoModifyArray(verb, dst_idx, src, flags, dst_len, dups)
    \/ /\ nops < budget
       /\ \E verb \in {"insert", "append", "change"},
             dst \in [binary : BOOLEAN, index : 0 .. MaxArrLen],
             src \in StringSources, flags \in SUBSET {AM_PART, AM_LINE},
             part \in 0 .. MaxDups, dups \in 0 .. MaxDups,
             moved \in BOOLEAN :
              /\ moved \/ (src.self /\ src.kind = "binary")
              /\ DoModifyString(dst, verb, src, flags, part, dups, moved)

SpecModify == InitModify /\ [][NextModify]_vars

ValuesOf(arr) == [p \in 1 .. Len(arr.cells) |-> arr.cells[p].val.n]

\* Modify_Array(insert, [10 20 30], 1, the same array from its head, splice,
\* dups = 2) has returned
SelfInsertTwiceWitness ==
    /\ last.op = "ModifyArray"
    /\ last.verb = "insert"
    /\ ValuesOf(last.pre) = <<10, 20, 30>>
    /\ last.dst_idx = 1
    /\ last.src.self /\ last.src.index = 0
    /\ last.flags = {AM_SPLICE}
    /\ last.dups = 2

\* C14 as the specification states it: inserting the block [10 20 30] into
\* itself at index 1 with dup_count = 2 produces [10 10 20 30 20 30].
SelfInsertTwiceGivesSix ==
    SelfInsertTwiceWitness => ValuesOf(array) = <<10, 10, 20, 30, 20, 30>>

\* C14: inserting the block [10 20 30] into itself at index 1 with
\* dup_count = 2 (Modify_Array, verb insert, splice) produces
\* [10 10 20 30 10 20 30 20 30]: both duplicates of the three elements, taken
\* as they were before the call, between the first element and the rest; the
\* returned index is 7.
SelfInsertTwiceGivesNine ==
    SelfInsertTwiceWitness =>
        /\ ValuesOf(array) = <<10, 10, 20, 30, 10, 20, 30, 20, 30>>
        /\ last.index = 7
        /\ last.past = 0

\* the source elements of one duplicate of the call in `last`: the source
\* value itself without splice, else the part (insert, append with the part
\* flag) or all of the source block from its index
SourceElements ==
    LET src == IF last.src.st = "null" THEN EMPTY_BLOCK ELSE last.src
        cells == IF src.self THEN last.pre.cells ELSE src.arr.cells
        n == IF last.src.st = "null" THEN 0
             ELSE IF last.verb # "change" /\ AM_PART \in last.flags
             THEN last.dst_len
             ELSE Len(cells) - src.index
    IN  IF AM_SPLICE \in last.flags \/ last.src.st = "null"
        THEN [k \in 1 .. n |-> cells[src.index + k].val]
        ELSE <<src.cell.val>>

\* C16: Modify_Array with verb insert or append, a source of n elements per
\* duplicate (n = 1 without splice) and dup count d > 0 turns a destination of
\* length L into one of length L + d*n: the old elements before position p,
\* then d consecutive copies of the source elements, then the old elements
\* from p on, where p is L for append and min(dst_index, L) for insert; the
\* returned index is 0 for append and p + d*n for insert.
InsertAppendPlacesDuplicates ==
    (/\ last.op = "ModifyArray"
     /\ last.verb \in {"insert", "append"}
     /\ last.src.st # "null"
     /\ last.dups > 0) =>
        LET L == Len(last.pre.cells)
            p == IF last.verb = "append" \/ last.dst_idx > L THEN L
                 ELSE last.dst_idx
            elems == SourceElements
            n == Len(elems)
            d == last.dups
        IN  /\ Len(array.cells) = L + d * n
            /\ \A k \in 1 .. L + d * n :
                   array.cells[k].val =
                       IF k <= p THEN last.pre.cells[k].val
                       ELSE IF k <= p + d * n
                       THEN elems[((k - p - 1) % n) + 1]
                       ELSE last.pre.cells[k - d * n].val
            /\ last.index = IF last.verb = "append" THEN 0 ELSE p + d * n
            /\ last.past = 0

\* two duplicates of a two-element source inserted in the middle
InsertWitness ==
    /\ last.op = "ModifyArray"
    /\ last.verb = "insert"
    /\ last.dups = 2
    /\ AM_SPLICE \in last.flags
    /\ last.src.st = "block" /\ ~last.src.self
    /\ Len(SourceElements) = 2
    /\ last.dst_idx = 1
    /\ Len(last.pre.cells) = 3
    /\ Len(array.cells) = 7

\* C17: Modify_Array with verb change, inserted total T = dups * element
\* count and replaced span R = remove_len: if T > R the length grows by
\* T - R; if T < R and the part flag is set it shrinks by R - T; otherwise it
\* changes only as far as the overwrite runs past the old tail; in every case
\* the T cells from the (clamped) destination index hold the duplicated
\* source, the elements before the index are unchanged, and the returned
\* index is the clamped index + T.  A no-value source is an empty spliced
\* source (T = 0).
ChangeReplacesSpan ==
    (last.op = "ModifyArray" /\ last.verb = "change" /\ last.dups > 0) =>
        LET L == Len(last.pre.cells)
            p == IF last.dst_idx > L THEN L ELSE last.dst_idx
            elems == SourceElements
            n == Len(elems)
            T == last.dups * n
            R == last.dst_len
        IN  /\ Len(array.cells) =
                   IF T > R THEN L + (T - R)
                   ELSE IF T < R /\ AM_PART \in last.flags THEN L - (R - T)
                   ELSE IF p + T > L THEN p + T ELSE L
            /\ \A k \in 1 .. p : array.cells[k].val = last.pre.cells[k].val
            /\ \A k \in 1 .. T :
                   /\ p + k <= Len(array.cells)
                   /\ array.cells[p + k].val = elems[((k - 1) % n) + 1]
            /\ last.index = p + T

\* C15: a call with a no-op input leaves the destination as it was and
\* returns the natural index (0 for append, the passed index otherwise): for
\* Modify_Array, a no-value source with insert or append, or a dup count
\* <= 0 with any verb; for Modify_String_Or_Binary on a writable destination
\* positioned at a codepoint boundary, a no-value source with insert or
\* append, a dup count <= 0, or an explicit part of 0 with insert or append.
NoOpLeavesDestination ==
    LET natural == IF last.verb = "append" THEN 0
                   ELSE IF last.op = "ModifyArray" THEN last.dst_idx
                   ELSE last.dst.index
        ins_app == last.verb \in {"insert", "append"}
    IN  /\ (/\ last.op = "ModifyArray"
            /\ (last.src.st = "null" /\ ins_app) \/ last.dups <= 0)
               => array = last.pre /\ last.index = natural
        /\ (/\ last.op = "ModifyString"
            /\ ByteAt(last.pre.bytes, last.dst.index) \notin 128 .. 191
            /\ \/ last.src.kind = "null" /\ ins_app
               \/ last.dups <= 0
               \/ AM_PART \in last.flags /\ last.part = 0 /\ ins_app)
               => /\ last.fail = ""
                  /\ series = last.pre
                  /\ last.index = natural

\* C18: after a Modify_String_Or_Binary call that returns, on a UTF-8 string
\* series (through a text value or a BINARY! value aliasing it; any verb,
\* source kind, part, dup count and line flag), the codepoint length stored
\* on the series is the number of codepoints encoded in its used bytes, and
\* the used bytes are whole codepoints.
StoredLengthIsCodepointCount ==
    (last.op = "ModifyString" /\ last.fail = "" /\ series.is_string) =>
        LET bytes == series.bytes
            Lead(k) == bytes[k] >= 192
            Cont(k) == bytes[k] \in 128 .. 191
        IN  /\ series.length
                   = Cardinality({k \in 1 .. Len(bytes) : ~Cont(k)})
            /\ \A k \in 1 .. Len(bytes) :
                   /\ Lead(k) => k < Len(bytes) /\ Cont(k + 1)
                   /\ Cont(k) => k > 1 /\ Lead(k - 1)

\* C19: Modify_String_Or_Binary on a BINARY! destination that aliases a
\* UTF-8 string series fails exactly when the destination byte index is on a
\* continuation byte; an index on the first byte of a codepoint, of one byte
\* or more, is accepted.  Likewise a string-aliased BINARY! source, once the
\* call examines it, is rejected exactly when its index is on a continuation
\* byte.
AliasIndexFailsOnContinuation ==
    (last.op = "ModifyString" /\ last.pre.is_string) =>
        LET src == last.src
            sbytes == IF src.self THEN last.pre.bytes ELSE src.bytes
            examined == /\ last.fail # "dst-index"
                        /\ last.dups > 0
                        /\ ~(AM_PART \in last.flags /\ last.part = 0
                             /\ last.verb # "change")
        IN  /\ last.dst.binary =>
                   (last.fail = "dst-index"
                    <=> ByteAt(last.pre.bytes, last.dst.index) \in 128 .. 191)
            /\ (/\ src.kind = "binary"
                /\ IF src.self THEN TRUE ELSE src.is_string
                /\ examined)
                   => (last.fail = "src-index"
                       <=> ByteAt(sbytes, src.index) \in 128 .. 191)

\* ---------------------------------------------------------------------
\* d-gc.c: Assert_Cell_Marked_Correctly
\* ---------------------------------------------------------------------

\* The value tags the sources name (the enum itself is generated at build
\* time), in the order of the switch.
ValueTags ==
    << "REB_0_END", "REB_NULLED", "REB_VOID", "REB_BLANK",
       "REB_LOGIC", "REB_INTEGER", "REB_DECIMAL", "REB_PERCENT", "REB_MONEY",
       "REB_CHAR", "REB_PAIR", "REB_TUPLE", "REB_TIME", "REB_DATE",
       "REB_DATATYPE", "REB_TYPESET", "REB_BITSET", "REB_MAP", "REB_HANDLE",
       "REB_LIBRARY", "REB_GOB", "REB_EVENT", "REB_STRUCT", "REB_IMAGE",
       "REB_VECTOR", "REB_BINARY",
       "REB_TEXT", "REB_FILE", "REB_EMAIL", "REB_URL", "REB_TAG",
       "REB_ISSUE",
       "REB_OBJECT", "REB_MODULE", "REB_ERROR", "REB_FRAME", "REB_PORT",
       "REB_VARARGS",
       "REB_BLOCK", "REB_SET_BLOCK", "REB_GET_BLOCK",
       "REB_GROUP", "REB_SET_GROUP", "REB_GET_GROUP",
       "REB_PATH", "REB_SET_PATH", "REB_GET_PATH",
       "REB_WORD", "REB_SET_WORD", "REB_GET_WORD",
       "REB_ACTION", "REB_QUOTED",
       "REB_P_NORMAL", "REB_P_HARD_QUOTE", "REB_P_SOFT_QUOTE",
       "REB_P_REFINEMENT", "REB_P_LOCAL", "REB_P_RETURN",
       "REB_G_XYF", "REB_V_SIGN_INTEGRAL_WIDE", "REB_X_BOOKMARK" >>

TagSet == {ValueTags[i] : i \in 1 .. Len(ValueTags)}

TagIndex(kind) == CHOOSE i \in 1 .. Len(ValueTags) : ValueTags[i] = kind

\* The bindable tags: from REB_ISSUE up to the internal tags.
IS_BINDABLE_KIND(kind) ==
    /\ TagIndex(kind) >= TagIndex("REB_ISSUE")
    /\ TagIndex(kind) < TagIndex("REB_P_NORMAL")

ANY_PATH_KIND(kind) == kind \in {"REB_PATH", "REB_SET_PATH", "REB_GET_PATH"}

\* A switch that lists only the first group, the words, REB_ACTION and
\* REB_QUOTED: every other tag goes to "default".
CaseLabel_FewCases(kind) ==
    CASE kind \in {"REB_0_END", "REB_NULLED", "REB_VOID", "REB_BLANK"}
             -> "REB_0_END"
      [] kind \in {"REB_WORD", "REB_SET_WORD", "REB_GET_WORD"} -> "REB_WORD"
      [] kind = "REB_QUOTED" -> "REB_QUOTED"
      [] kind = "REB_ACTION" -> "REB_ACTION"
      [] OTHER -> "default"

\* The case label of the switch a tag is dispatched to, "default" when no
\* label lists it.
CaseLabel(kind) ==
    CASE kind \in {"REB_0_END", "REB_NULLED", "REB_VOID", "REB_BLANK"}
             -> "REB_0_END"
      [] kind \in {"REB_LOGIC", "REB_INTEGER", "REB_DECIMAL", "REB_PERCENT",
                   "REB_MONEY"} -> "REB_LOGIC"
      [] kind = "REB_CHAR" -> "REB_CHAR"
      [] kind = "REB_PAIR" -> "REB_PAIR"
      [] kind \in {"REB_TUPLE", "REB_TIME", "REB_DATE"} -> "REB_TUPLE"
      [] kind = "REB_DATATYPE" -> "REB_DATATYPE"
      [] kind = "REB_TYPESET" -> "REB_TYPESET"
      [] kind = "REB_BITSET" -> "REB_BITSET"
      [] kind = "REB_MAP" -> "REB_MAP"
      [] kind = "REB_HANDLE" -> "REB_HANDLE"
      [] kind = "REB_LIBRARY" -> "REB_LIBRARY"
      [] kind = "REB_GOB" -> "REB_GOB"
      [] kind = "REB_EVENT" -> "REB_EVENT"
      [] kind = "REB_STRUCT" -> "REB_STRUCT"
      [] kind = "REB_IMAGE" -> "REB_IMAGE"
      [] kind = "REB_VECTOR" -> "REB_VECTOR"
      [] kind = "REB_BINARY" -> "REB_BINARY"
      [] kind \in {"REB_TEXT", "REB_FILE", "REB_EMAIL", "REB_URL", "REB_TAG"}
             -> "REB_TEXT"
      [] kind = "REB_ISSUE" -> "REB_WORD"
      [] kind \in {"REB_OBJECT", "REB_MODULE", "REB_ERROR", "REB_FRAME",
                   "REB_PORT"} -> "REB_OBJECT"
      [] kind = "REB_VARARGS" -> "REB_VARARGS"
      [] kind \in {"REB_BLOCK", "REB_SET_BLOCK", "REB_GET_BLOCK",
                   "REB_GROUP", "REB_SET_GROUP", "REB_GET_GROUP"}
             -> "REB_BLOCK"
      [] ANY_PATH_KIND(kind) -> "REB_PATH"
      [] kind \in {"REB_WORD", "REB_SET_WORD", "REB_GET_WORD"} -> "REB_WORD"
      [] kind = "REB_ACTION" -> "REB_ACTION"
      [] kind = "REB_QUOTED" -> "REB_QUOTED"
      [] kind \in {"REB_P_NORMAL", "REB_P_HARD_QUOTE", "REB_P_SOFT_QUOTE",
                   "REB_P_REFINEMENT", "REB_P_LOCAL", "REB_P_RETURN"}
             -> "REB_P_NORMAL"
      [] kind = "REB_G_XYF" -> "REB_G_XYF"
      [] kind = "REB_V_SIGN_INTEGRAL_WIDE" -> "REB_V_SIGN_INTEGRAL_WIDE"
      [] kind = "REB_X_BOOKMARK" -> "REB_X_BOOKMARK"
      [] OTHER -> "default"

\* the cases that look at no node of the payload
NodelessCases ==
    {"REB_0_END", "REB_LOGIC", "REB_CHAR", "REB_TUPLE", "REB_TYPESET",
     "REB_G_XYF", "REB_V_SIGN_INTEGRAL_WIDE", "REB_X_BOOKMARK"}

\* as CaseAsserts, but only the mark bits are asserted
CaseAsserts_MarksOnly(label, kind, v) ==
    label \in NodelessCases \/ v.marked

\* The assertions of the case a cell is dispatched to.  v.marked says that
\* every node the payload refers to carries the mark; v.node is
\* CELL_FLAG_FIRST_IS_NODE; v.inaccessible is SERIES_INFO_INACCESSIBLE of the
\* context or path array; v.archetype says that the context's archetype
\* refers to the context.
CaseAsserts(label, kind, v) ==
    CASE label \in NodelessCases -> TRUE
      [] label \in {"REB_PAIR", "REB_DATATYPE", "REB_MAP", "REB_HANDLE",
                    "REB_LIBRARY", "REB_BINARY", "REB_VARARGS",
                    "REB_ACTION", "REB_P_NORMAL"} -> v.marked
      [] label \in {"REB_BITSET", "REB_GOB", "REB_EVENT", "REB_STRUCT",
                    "REB_IMAGE", "REB_VECTOR", "REB_TEXT", "REB_BLOCK"}
             -> v.node /\ v.marked
      [] label = "REB_OBJECT" ->
             /\ v.node /\ v.marked
             /\ v.binding # "unbound" => v.ctx_type = "REB_FRAME"
             /\ IF v.phase # "null"
                THEN kind = "REB_FRAME" /\ v.phase = "marked"
                ELSE kind # "REB_FRAME"
             /\ v.inaccessible \/ (v.ctx_type = kind /\ v.archetype)
      [] label = "REB_PATH" ->
             /\ v.node
             /\ ~v.inaccessible
             /\ Len(v.items) >= 2
             /\ \A i \in 1 .. Len(v.items) : ~ANY_PATH_KIND(v.items[i])
             /\ v.marked
      [] label = "REB_WORD" ->
             /\ v.marked
             /\ IF v.binding # "unbound" THEN v.index > 0 ELSE v.index = -1

\* Assert_Cell_Marked_Correctly: the branch taken and how the call ends
\* ("ok", "assert" for a failed assertion, "panic").
Assert_Cell_Marked_Correctly(quotable) ==
    LET v == quotable.v
        unwrap_ok ==
            /\ v.hdr_marked
            /\ IF IS_BINDABLE_KIND(v.kind) /\ v.depth = 0
               THEN v.binding = quotable.qbinding
               ELSE quotable.qbinding = "unbound"
            /\ v.depth = 0
        kind == v.kind
        unmanaged == /\ IS_BINDABLE_KIND(kind)
                     /\ v.binding = "unmanaged"
                     /\ ~v.stack
        label == CaseLabel(kind)
    IN  IF quotable.quoted /\ ~unwrap_ok
        THEN [branch |-> "unwrap", outcome |-> "assert"]
        ELSE IF unmanaged
        THEN [branch |-> "binding", outcome |-> "panic"]
        ELSE IF label \in {"default", "REB_QUOTED"}
        THEN [branch |-> label, outcome |-> "panic"]
        ELSE [branch |-> label,
              outcome |-> IF CaseAsserts(label, kind, v) THEN "ok"
                          ELSE "assert"]

\* The tag-specific payload shapes the calls are made with.
ShapesOf(kind) ==
    LET plain == [index |-> 0, phase |-> "null", ctx_type |-> kind,
                  items |-> <<>>, inaccessible |-> FALSE, archetype |-> TRUE]
    IN  CASE CaseLabel(kind) = "REB_WORD" ->
                 {[plain EXCEPT !.index = i] : i \in {-1, 0, 1}}
          [] CaseLabel(kind) = "REB_OBJECT" ->
                 {[plain EXCEPT !.phase = p, !.ctx_type = t,
                                !.inaccessible = i, !.archetype = a] :
                      p \in {"null", "marked", "unmarked"},
                      t \in {kind, "REB_FRAME"}, i \in BOOLEAN,
                      a \in BOOLEAN}
          [] CaseLabel(kind) = "REB_PATH" ->
                 {[plain EXCEPT !.items = s, !.inaccessible = i] :
                      s \in {<<"REB_WORD">>, <<"REB_WORD", "REB_INTEGER">>,
                             <<"REB_WORD", "REB_PATH">>},
                      i \in BOOLEAN}
          [] OTHER -> {plain}

MkCell(kind, depth, flags, binding, shape) ==
    [kind |-> kind, depth |-> depth, hdr_marked |-> flags.hdr_marked,
     stack |-> flags.stack, node |-> flags.node, marked |-> flags.marked,
     binding |-> binding, index |-> shape.index, phase |-> shape.phase,
     ctx_type |-> shape.ctx_type, items |-> shape.items,
     inaccessible |-> shape.inaccessible, archetype |-> shape.archetype]

DoAssertCell(quoted, qbinding, v) ==
    /\ Step
    /\ last' = [op |-> "AssertCell",
                cell |-> [quoted |-> quoted, qbinding |-> qbinding, v |-> v],
                res |-> Assert_Cell_Marked_Correctly(
                            [quoted |-> quoted, qbinding |-> qbinding,
                             v |-> v])]
    /\ UNCHANGED <<ctxs, kls, binds, buf, hist>>

InitGc == InitFrom(EmptyHeap, MaxGcOps)

NextGc ==
    /\ nops < budget
    /\ \E kind \in TagSet, depth \in 0 .. MaxQuoteDepth, quoted \in BOOLEAN,
          binding \in {"unbound", "managed", "unmanaged"},
          flags \in [hdr_marked : BOOLEAN, stack : BOOLEAN, node : BOOLEAN,
                     marked : BOOLEAN] :
        \E shape \in ShapesOf(kind),
           qbinding \in IF quoted THEN {"unbound", "managed", "unmanaged"}
                        ELSE {binding} :
            /\ quoted \/ ~(kind = "REB_QUOTED" /\ depth = 0)
            /\ DoAssertCell(quoted, qbinding,
                            MkCell(kind, depth, flags, binding, shape))

SpecGc == InitGc /\ [][NextGc]_vars

\* A cell of the shape its tag requires, all of whose nodes are marked.
WellFormedMarked(quotable) ==
    LET v == quotable.v
        label == CaseLabel(v.kind)
    IN  /\ v.kind # "REB_QUOTED"
        /\ quotable.quoted =>
               /\ v.hdr_marked /\ v.depth = 0
               /\ quotable.qbinding
                      = IF IS_BINDABLE_KIND(v.kind) THEN v.binding
                        ELSE "unbound"
        /\ (IS_BINDABLE_KIND(v.kind) /\ v.binding = "unmanaged") => v.stack
        /\ v.node /\ v.marked
        /\ v.phase # "unmarked"
        /\ (v.phase = "marked") <=> (v.kind = "REB_FRAME")
        /\ v.ctx_type = v.kind /\ v.archetype
        /\ label = "REB_PATH" => ~v.inaccessible
        /\ (label = "REB_OBJECT" /\ v.binding # "unbound")
               => v.kind = "REB_FRAME"
        /\ label = "REB_WORD" =>
               v.index = IF v.binding # "unbound" THEN 1 ELSE -1
        /\ label = "REB_PATH" => v.items = <<"REB_WORD", "REB_INTEGER">>

KeyShapes == {sh \in Shapes : sh.kind = "object" /\ Len(sh.entries) = 2}

InitKeys ==
    \E H \in StartHeaps(KeyShapes, KeyShapes, BOOLEAN) : InitFrom(H, MaxOps)

NextKeys ==
    \/ /\ nops < budget
       /\ \E head \in Heads, p \in {NULL} \cup ValidCtxs, spec \in {NULL, 1} :
              DoMake("object", spec, head, p)
    \/ /\ nops < budget
       /\ \E head \in CollectHeads, prior \in {NULL} \cup ValidCtxs,
             flags \in KeyFlagSets :
              DoCollectKeylist(head, prior, flags, {{}})
    \/ \E c \in Ctxs, n \in 1 .. 2, v \in WriteVals : DoSetVar(c, n, v)

SpecKeys == InitKeys /\ [][NextKeys]_vars

\* C21: Grab_Collected_Keylist_Managed(prior) returns prior's own key list,
\* with its keys, flags and meta pointer as they were, exactly when the
\* Collection Buffer has as many keys as prior; otherwise it returns a new
\* key list with the buffer's keys (prior's keys first) and a null meta
\* pointer.  A child made from a parent that contributes all keys leaves the
\* parent's key list, its meta pointer included, as it was.
GrabReusesPriorUnchanged ==
    /\ (last.op = "CollectKeylist" /\ ~last.failed /\ last.prior # NULL) =>
           LET pk == CTX_KEYLIST(last.pre, last.prior)
               res == last.result[1]
               plen == CTX_LEN(last.pre, last.prior)
           IN  IF Len(res.keys) = plen + 1
               THEN /\ last.keylist = pk
                    /\ kls[pk] = last.pre.kls[pk]
               ELSE /\ last.keylist = Len(last.pre.kls) + 1
                    /\ res.meta = NULL
                    /\ Len(res.keys) > plen + 1
                    /\ kls[pk] = last.pre.kls[pk]
    /\ (last.op = "Make" /\ last.parent # NULL) =>
           LET pk == CTX_KEYLIST(last.pre, last.parent) IN
           CTX_KEYLIST(Heap, last.ctx) = pk =>
               /\ kls[pk].keys = last.pre.kls[pk].keys
               /\ kls[pk].meta = last.pre.kls[pk].meta

\* the canons of the keys 1.. of context c of heap H
KeyCanons(H, c) ==
    {VAL_TYPESET_CANON(CTX_KEY(H, c, n)) : n \in 1 .. CTX_LEN(H, c)}

\* C22: Make_Selfish_Context_Detect with a parent returns a child that has
\* every key symbol of the parent; for every parent symbol but self the
\* child's value for the symbol is the parent's value (for a block: a clone,
\* same content in a new series), whether or not the parent defines self;
\* the slots of the symbols newly found in the set-words hold blank.
MakeCopiesParentValues ==
    (last.op = "Make" /\ last.parent # NULL) =>
        LET p == last.parent
            c == last.ctx
        IN  /\ \A n \in 1 .. CTX_LEN(last.pre, p) :
                   LET sym == VAL_TYPESET_SYM(CTX_KEY(last.pre, p, n))
                       m == Find_Word_In_Context(Heap, c, sym, TRUE)
                       pv == CTX_VAR(last.pre, p, n)
                   IN  /\ m > 0
                       /\ SYMBOL_TO_CANON(sym) # SYM_SELF =>
                              IF pv.t = "block"
                              THEN /\ [CTX_VAR(Heap, c, m) EXCEPT !.ref = pv.ref]
                                          = pv
                                   /\ CTX_VAR(Heap, c, m).ref # pv.ref
                              ELSE CTX_VAR(Heap, c, m) = pv
            /\ \A m \in 1 .. CTX_LEN(Heap, c) :
                   LET canon == VAL_TYPESET_CANON(CTX_KEY(Heap, c, m)) IN
                   (canon # SYM_SELF /\ canon \notin KeyCanons(last.pre, p))
                       => CTX_VAR(Heap, c, m) = BLANK_VALUE

SelfKeysAreHeaders(H) ==
    \A c \in 1 .. Len(H.ctxs) :
        \A n \in 1 .. CTX_LEN(H, c) :
            (/\ n < Len(CTX_KEYS(H, c))
             /\ VAL_TYPESET_CANON(CTX_KEY(H, c, n)) = SYM_SELF)
                => /\ CTX_KEY(H, c, n).hidden
                   /\ CTX_VAR(H, c, n) = CTX_VALUE(H, c)

\* C23: in every context that Make_Selfish_Context_Detect,
\* Merge_Contexts_Selfish, Copy_Context_Shallow_Extra and Resolve_Context (in
\* any mode) produce or change, a key named self is hidden and the value in
\* its slot is a copy of the context's own slot-0 value, so that it refers
\* to that same context: each of these calls keeps the property.
SelfIsHiddenHeader ==
    (/\ last.op \in {"Make", "Merge", "Copy", "Resolve"}
     /\ SelfKeysAreHeaders(last.pre))
        => SelfKeysAreHeaders(Heap)

\* ======================================================== SpecFind
\* lookups by symbol in contexts with hidden keys and case variants

DoFind(context, sym, always) ==
    /\ Step
    /\ last' = [op |-> "Find", ctx |-> context, sym |-> sym,
                always |-> always,
                n |-> Find_Word_In_Context(Heap, context, sym, always),
                pre |-> Heap]
    /\ UNCHANGED <<ctxs, kls, binds, buf, hist>>

DoFindValue(context, sym) ==
    /\ Step
    /\ last' = [op |-> "FindValue", ctx |-> context, sym |-> sym,
                slot |-> Find_Word_Value(Heap, context, sym), pre |-> Heap]
    /\ UNCHANGED <<ctxs, kls, binds, buf, hist>>

InitFind ==
    \E H \in Built({EmptyHeap}, Shapes), hide \in 0 .. 2 :
        InitFrom(IF hide \in 1 .. CTX_LEN(H, 1)
                 THEN [H EXCEPT !.kls[CTX_KEYLIST(H, 1)].keys[hide + 1].hidden
                                    = TRUE]
                 ELSE H,
                 MaxOps)

NextFind ==
    \/ \E c \in Ctxs, sym \in Syms, always \in BOOLEAN :
          DoFind(c, sym, always)
    \/ \E c \in {NULL} \cup Ctxs, sym \in Syms : DoFindValue(c, sym)
    \/ \E c \in Ctxs, sym \in UserSyms, la \in BOOLEAN : DoAppend(c, sym, la)

SpecFind == InitFind /\ [][NextFind]_vars

\* key n of context c matches sym, by the symbol itself or by its canon
KeyMatches(H, c, n, sym) ==
    \/ VAL_TYPESET_SYM(CTX_KEY(H, c, n)) = sym
    \/ VAL_TYPESET_CANON(CTX_KEY(H, c, n)) = SYMBOL_TO_CANON(sym)

\* C24: Find_Word_In_Context(context, sym, include_hidden) returns n in
\* 0 .. length; n > 0 only if key n matches sym (the symbol or its canon), is
\* not hidden or include_hidden is set, and is the lowest matching key; it
\* returns 0 exactly when there is no such key.  Find_Word_Value returns the
\* var slot of that index, or not-found for a null context, an absent symbol
\* or a hidden key.
FindReturnsLowestVisibleMatch ==
    /\ last.op = "Find" =>
           LET H == last.pre
               c == last.ctx
               matches == {k \in 1 .. CTX_LEN(H, c) :
                              KeyMatches(H, c, k, last.sym)}
               such == {k \in matches :
                           /\ \A j \in matches : k <= j
                           /\ ~CTX_KEY(H, c, k).hidden \/ last.always}
           IN  /\ last.n \in 0 .. CTX_LEN(H, c)
               /\ last.n > 0 => last.n \in such
               /\ last.n = 0 <=> such = {}
    /\ last.op = "FindValue" =>
           LET H == last.pre
               c == last.ctx
               visible == IF c = NULL THEN {}
                          ELSE {k \in 1 .. CTX_LEN(H, c) :
                                   /\ KeyMatches(H, c, k, last.sym)
                                   /\ ~CTX_KEY(H, c, k).hidden}
           IN  IF visible = {} THEN last.slot = NULL
               ELSE last.slot \in visible

\* lookups of a case variant: one that finds a hidden key because hidden keys
\* are included
FindWitness ==
    /\ last.op = "Find"
    /\ last.always
    /\ last.n = 2
    /\ CTX_KEY(last.pre, last.ctx, last.n).hidden
    /\ VAL_TYPESET_SYM(CTX_KEY(last.pre, last.ctx, last.n)) # last.sym

\* ------------------------------------------- claims about Resolve_Context
\* canon c is selected by only_words `ow` for target t of heap P
ResolveSelects(P, t, ow, c) ==
    CASE ow.ow = "void" -> TRUE
      [] ow.ow = "integer" ->
             \E n \in (IF ow.i = 0 THEN 1 ELSE ow.i) .. CTX_LEN(P, t) :
                 VAL_TYPESET_CANON(CTX_KEY(P, t, n)) = c
      [] OTHER -> \E w \in 1 .. Len(ow.words) :
                      /\ IS_WORD(ow.words[w]) \/ IS_SET_WORD(ow.words[w])
                      /\ VAL_WORD_CANON(ow.words[w]) = c

\* the indices of the source keys that are selected and whose symbol the
\* target does not have, in key order
RECURSIVE MissingKeys(_, _, _, _, _)
MissingKeys(P, t, s, ow, m) ==
    IF m > CTX_LEN(P, s) THEN <<>>
    ELSE LET c == VAL_TYPESET_CANON(CTX_KEY(P, s, m)) IN
         (IF ResolveSelects(P, t, ow, c) /\ c \notin KeyCanons(P, t)
          THEN <<m>> ELSE <<>>) \o MissingKeys(P, t, s, ow, m + 1)

\* C26: Resolve_Context with allow_expand: every selected source symbol that
\* the target did not have is afterwards a new key of the target, appended
\* after the old keys in source key order, with the source's value and the
\* source key's lookback flag; the old keys keep their indices; and the
\* storage is expanded once, by the precomputed number of new slots.
ResolveAppendsMissingKeys ==
    (last.op = "Resolve" /\ last.expand) =>
        LET P == last.pre
            t == last.target
            s == last.source
            old == CTX_LEN(P, t)
            missing == MissingKeys(P, t, s, last.only_words, 1)
        IN  /\ CTX_LEN(Heap, t) = old + Len(missing)
            /\ \A n \in 1 .. old :
                   VAL_TYPESET_SYM(CTX_KEY(Heap, t, n))
                       = VAL_TYPESET_SYM(CTX_KEY(P, t, n))
            /\ \A j \in 1 .. Len(missing) :
                   /\ VAL_TYPESET_CANON(CTX_KEY(Heap, t, old + j))
                          = VAL_TYPESET_CANON(CTX_KEY(P, s, missing[j]))
                   /\ CTX_KEY(Heap, t, old + j).lookback
                          = CTX_KEY(P, s, missing[j]).lookback
                   /\ CTX_VAR(Heap, t, old + j) = CTX_VAR(P, s, missing[j])
            /\ Len(missing) > 0 =>
                   ResolveExpansions(P, t, last.only_words, TRUE,
                                     CTX_LEN(Heap, t) - old)
                       = <<Len(missing)>>

\* C28: Resolve_Context changes no target value but those of selected
\* symbols that the source has: a target slot whose symbol is not selected,
\* or is selected but absent from the source, or whose key is locked, holds
\* the same value after the call as before, in every mode, copy_all included.
ResolveTouchesOnlySelectedPresent ==
    last.op = "Resolve" =>
        LET P == last.pre
            t == last.target
        IN  \A n \in 1 .. CTX_LEN(P, t) :
                LET c == VAL_TYPESET_CANON(CTX_KEY(P, t, n)) IN
                (\/ ~ResolveSelects(P, t, last.only_words, c)
                 \/ c \notin KeyCanons(P, last.source)
                 \/ CTX_KEY(P, t, n).locked)
                    => CTX_VAR(Heap, t, n) = CTX_VAR(P, t, n)

\* C29: when Resolve_Context copies a value into a target whose key list is
\* SHARED with another context, the lookback flag it takes over from the
\* source key is not seen through the other context: every other holder of
\* the key list observes the same keys (symbol, bitset, flags) after the call
\* as before it.
ResolveLeavesSharedKeys ==
    (last.op = "Resolve" /\ ~last.expand) =>
        \A d \in 1 .. Len(last.pre.ctxs) :
            d # last.target => CTX_KEYS(Heap, d) = CTX_KEYS(last.pre, d)

\* ======================================================= SpecShare
\* contexts on one key list: copies, appends that bind a word, and requests
\* for a key list of one's own

\* Append_Context(context, word, 0): Append_Context_Core with an unbound word
\* and no lookahead; the caller has looked the symbol up first
DoAppendWord(c, wt, sym) ==
    /\ Step
    /\ Find_Word_In_Context(Heap, c, sym, TRUE) = 0
    /\ \E A \in {Append_Context_Core(Heap, c, MkWord(wt, sym), SYM_0,
                                     FALSE)} :
           /\ SetHeap(A.H)
           /\ hist' = [hist EXCEPT ![c].log =
                          Append(@, [sym |-> sym, lookahead |-> FALSE,
                                     val |-> VOID_VALUE])]
           /\ last' = [op |-> "AppendWord", ctx |-> c, word |-> A.word,
                       slot |-> A.slot, pre |-> Heap]
    /\ UNCHANGED <<binds, buf>>

DoEnsureUnique(c) ==
    /\ Step
    /\ \E E \in {Ensure_Keylist_Unique_Invalidated(Heap, c)} :
           /\ SetHeap(E.H)
           /\ last' = [op |-> "EnsureUnique", ctx |-> c, ret |-> E.ret,
                       pre |-> Heap]
    /\ hist' = Untouched(hist, {c})
    /\ UNCHANGED <<binds, buf>>

InitShare ==
    \E H \in StartHeaps(CowShapes, CowShapes, BOOLEAN) :
        InitFrom(H, MaxShareOps)

NextShare ==
    \/ \E c \in Ctxs, wt \in {"word", "set-word"}, sym \in UserSyms :
          DoAppendWord(c, wt, sym)
    \/ \E c \in Ctxs, sym \in UserSyms : DoAppend(c, sym, FALSE)
    \/ \E src \in Ctxs : DoCopy(src, 0)
    \/ \E c \in Ctxs : DoEnsureUnique(c)

SpecShare == InitShare /\ [][NextShare]_vars

\* C27: Append_Context_Core with an unbound, non-relative word (and symbol
\* 0) appends a key with the word's symbol and changes the word in place: it
\* gets the bound flag, the context, and as index the context's new length,
\* which is positive and is the index of the key just appended.
AppendBindsWord ==
    last.op = "AppendWord" =>
        LET w == last.word
            c == last.ctx
        IN  /\ w.bound
            /\ w.ctx = c
            /\ w.index = CTX_LEN(Heap, c)
            /\ w.index = CTX_LEN(last.pre, c) + 1
            /\ w.index > 0
            /\ w.index = Len(CTX_KEYS(Heap, c)) - 1
            /\ VAL_TYPESET_SYM(CTX_KEY(Heap, c, w.index)) = w.sym

\* C30: Ensure_Keylist_Unique_Invalidated(context) on a context whose key
\* list is SHARED replaces it with a copy of its own that has the same keys,
\* and returns true; on one whose key list is not SHARED it changes nothing
\* and returns false.  After the call the context's key list is not SHARED.
EnsureUniqueUnshares ==
    last.op = "EnsureUnique" =>
        LET c == last.ctx
            k0 == CTX_KEYLIST(last.pre, c)
            k == CTX_KEYLIST(Heap, c)
        IN  /\ IF last.pre.kls[k0].shared
               THEN /\ last.ret
                    /\ k \notin 1 .. Len(last.pre.kls)
                    /\ kls[k].keys = last.pre.kls[k0].keys
               ELSE ~last.ret /\ Heap = last.pre
            /\ ~kls[k].shared

\* the first source cell of the call in `last`, with its NEWLINE_BEFORE flag
FirstSourceCell ==
    IF AM_SPLICE \in last.flags
    THEN (IF last.src.self THEN last.pre.cells ELSE last.src.arr.cells)
             [last.src.index + 1]
    ELSE last.src.cell

\* the index at which the call in `last` writes its first cell
InsertionPoint ==
    IF last.verb = "append" \/ last.dst_idx > Len(last.pre.cells)
    THEN Len(last.pre.cells) ELSE last.dst_idx

\* a Modify_Array call with the line flag that writes at least one cell
LineInsertion ==
    /\ last.op = "ModifyArray"
    /\ AM_LINE \in last.flags
    /\ last.dups > 0
    /\ Len(SourceElements) > 0

\* C31 as the specification states it: with the line flag and a non-empty
\* insertion the first inserted element has NEWLINE_BEFORE afterwards, at
\* whatever destination index.
LineMarksFirstInserted ==
    (LineInsertion /\ InsertionPoint < Len(array.cells)) =>
        array.cells[InsertionPoint + 1].nl

\* C31: Modify_Array with the line flag and a non-empty insertion leaves
\* NEWLINE_BEFORE set on the head element of the destination array; the
\* first inserted element has the flag exactly when it is that head element
\* (insertion at index 0), when the insertion was at the tail of a
\* destination with NEWLINE_AT_TAIL, or when the source cell written there
\* carried the flag.
LineMarksArrayHead ==
    LineInsertion =>
        /\ Len(array.cells) > 0 => array.cells[1].nl
        /\ InsertionPoint < Len(array.cells) =>
               array.cells[InsertionPoint + 1].nl
                   = \/ InsertionPoint = 0
                     \/ InsertionPoint = Len(last.pre.cells)
                            /\ last.pre.nl_tail
                     \/ FirstSourceCell.nl

\* a value without NEWLINE_BEFORE inserted with the line flag in the middle
\* of an array none of whose cells has the flag
LineMiddleWitness ==
    /\ LineInsertion
    /\ last.verb = "insert"
    /\ last.dst_idx = 1
    /\ Len(last.pre.cells) = 3
    /\ \A k \in 1 .. 3 : ~last.pre.cells[k].nl
    /\ ~FirstSourceCell.nl
    /\ array.cells[1].nl
    /\ ~array.cells[2].nl

\* whether a trailing newline is due for the call in `last`: the line flag,
\* or a spliced source whose cell after the last one included has
\* NEWLINE_BEFORE, or whose array has NEWLINE_AT_TAIL when the included
\* cells reach its end
TrailingNewlineDue ==
    LET src_arr == IF last.src.self THEN last.pre ELSE last.src.arr
        after == last.src.index + Len(SourceElements)
    IN  \/ AM_LINE \in last.flags
        \/ /\ AM_SPLICE \in last.flags
           /\ IF after >= Len(src_arr.cells) THEN src_arr.nl_tail
              ELSE src_arr.cells[after + 1].nl

\* C32: Modify_Array with a non-empty insertion: if the insertion point is
\* the destination's tail and the destination has NEWLINE_AT_TAIL, the first
\* inserted element gets NEWLINE_BEFORE and the array's tail flag afterwards
\* is set exactly when a trailing newline is due; if a trailing newline is
\* due, the first element of every duplicate after the first has
\* NEWLINE_BEFORE, and so has the position right after the whole insertion
\* (as NEWLINE_AT_TAIL when that position is the tail).
NewlinesPropagate ==
    (last.op = "ModifyArray" /\ last.dups > 0 /\ Len(SourceElements) > 0) =>
        LET L == Len(last.pre.cells)
            p == InsertionPoint
            n == Len(SourceElements)
            T == last.dups * n
            Marked(k) == k <= Len(array.cells) /\ array.cells[k].nl
        IN  /\ (p = L /\ last.pre.nl_tail) =>
                   /\ Marked(p + 1)
                   /\ array.nl_tail = TrailingNewlineDue
            /\ TrailingNewlineDue =>
                   /\ \A d \in 1 .. last.dups - 1 :
                          Marked(p + d * n + 1)
                   /\ IF p + T = Len(array.cells) THEN array.nl_tail
                      ELSE Marked(p + T + 1)

\* C33: Modify_String_Or_Binary with a source whose series is the destination
\* series leaves the same bytes in the destination, and returns or fails the
\* same way, as the same call with a source that is an independent copy of
\* the series taken before the call: the bytes copied in are those of before
\* the call, never bytes that the call has already moved or overwritten.
SelfSourceAsIndependentCopy ==
    (last.op = "ModifyString" /\ last.src.self) =>
        LET copy == [SeriesSrc(last.src.kind, last.pre.bytes, last.src.index,
                               last.pre.is_string)
                        EXCEPT !.length = last.pre.length]
            R == Modify_String_Or_Binary(last.pre, last.dst, last.verb, copy,
                                         last.flags, last.part, last.dups,
                                         TRUE)
        IN  /\ last.fail = R.fail
            /\ series.bytes = R.ser.bytes
            /\ last.index = R.index

\* the codepoint index at which the call in `last` edits its series
EditIndex ==
    LET tail == last.pre.length
        idx == IF last.dst.binary
               THEN STR_INDEX_AT(last.pre.bytes, last.dst.index)
               ELSE last.dst.index
    IN  IF last.verb = "append" \/ idx > tail THEN tail ELSE idx

\* the call in `last` returns before it edits anything: a dup count <= 0,
\* or with insert and append no source value or a part of 0
NoOpCall ==
    \/ last.dups <= 0
    \/ /\ last.verb # "change"
       /\ last.src.kind = "null" \/ (AM_PART \in last.flags /\ last.part = 0)

\* C34: after a Modify_String_Or_Binary call that edits and returns, on a string
\* series that carried an exact bookmark, a bookmark still carried has an
\* index of at most the codepoint length and as offset the byte offset at
\* which the codepoint of that index starts.  An insert or append at or
\* before the bookmark's index shifts the bookmark by the codepoints and
\* bytes inserted, a change resets a bookmark that lies after the edit point
\* to the edit point, and the bookmark is dropped when it points past the new
\* length or the series is shorter than SIZEOF_REBVAL codepoints.
BookmarkStaysExact ==
    (/\ last.op = "ModifyString" /\ last.fail = ""
     /\ last.pre.is_string /\ last.pre.bmk.has
     /\ ~NoOpCall) =>
        LET b0 == last.pre.bmk
            p == EditIndex
            updated ==
                IF last.verb # "change" /\ b0.index >= p
                THEN [b0 EXCEPT
                         !.index = @ + (series.length - last.pre.length),
                         !.offset = @ + (Len(series.bytes)
                                         - Len(last.pre.bytes))]
                ELSE IF last.verb = "change" /\ b0.index > p
                THEN [b0 EXCEPT
                         !.index = p,
                         !.offset = VAL_OFFSET_FOR_INDEX(last.pre.bytes, p)]
                ELSE b0
        IN  /\ series.bmk =
                   IF updated.index > series.length
                      \/ series.length < SIZEOF_REBVAL
                   THEN NoBookmark ELSE updated
            /\ series.bmk.has =>
                   /\ series.bmk.index <= series.length
                   /\ series.bmk.offset
                          = VAL_OFFSET_FOR_INDEX(series.bytes,
                                                 series.bmk.index)

\* C35: Modify_String_Or_Binary with verb insert or append, the part flag
\* with part p > 0 and dup count d > 0, on a text destination, inserts d
\* copies of the first min(p, source length) codepoints of the source: the
\* codepoint length grows by d times that count and the used bytes grow by d
\* times the byte size of exactly those codepoints (each count one more per
\* duplicate with the line flag), and the bytes inserted are those copies.
PartThenDups ==
    (/\ last.op = "ModifyString" /\ last.fail = ""
     /\ ~last.dst.binary
     /\ last.verb # "change" /\ AM_PART \in last.flags
     /\ ~NoOpCall) =>
        LET S == Modify_Source(last.pre, last.dst, last.src, -1)
            count == IF last.part < S.len THEN last.part ELSE S.len
            size == VAL_OFFSET_FOR_INDEX(S.data, count)
            line == IF AM_LINE \in last.flags THEN <<10>> ELSE <<>>
            one == SubSeq(S.data, 1, size) \o line
            off == VAL_OFFSET_FOR_INDEX(last.pre.bytes, EditIndex)
            d == last.dups
        IN  /\ series.length = last.pre.length + d * (count + Len(line))
            /\ Len(series.bytes) = Len(last.pre.bytes) + d * Len(one)
            /\ \A k \in 1 .. d * Len(one) :
                   /\ off + k <= Len(series.bytes)
                   /\ series.bytes[off + k] = one[((k - 1) % Len(one)) + 1]

\* C36: Modify_String_Or_Binary with verb change and dup count > 0 on a text
\* destination replaces `part` codepoints at the destination index, where
\* part is the inserted codepoint total without the part flag and is clamped
\* to the codepoints that remain from the index: the used bytes are the old
\* ones plus the inserted byte total minus the byte size of the replaced
\* codepoints, the codepoint length is the old one plus the inserted total
\* minus part, the bytes before the edit offset and those after the replaced
\* codepoints are preserved, the bytes between are the duplicated source
\* (when the source is not storage of the destination), and the returned
\* index is the destination index plus the inserted codepoint total; also
\* when inserted and replaced codepoints have different encoded sizes.
ChangeTextReplacesPart ==
    (/\ last.op = "ModifyString" /\ last.fail = ""
     /\ ~last.dst.binary
     /\ last.verb = "change" /\ last.dups > 0) =>
        LET pre == last.pre
            p == EditIndex
            off == VAL_OFFSET_FOR_INDEX(pre.bytes, p)
            S == Modify_Source(pre, last.dst,
                               IF last.src.kind = "null" THEN EMPTY_TEXT
                               ELSE last.src, -1)
            line == IF AM_LINE \in last.flags THEN <<10>> ELSE <<>>
            one == S.data \o line
            ins_len == (S.len + Len(line)) * last.dups
            ins_size == Len(one) * last.dups
            remaining == pre.length - p
            part1 == IF AM_PART \in last.flags THEN last.part ELSE ins_len
            part == IF part1 > remaining THEN remaining ELSE part1
            rep_size == VAL_OFFSET_FOR_INDEX(pre.bytes, p + part) - off
        IN  /\ Len(series.bytes) = Len(pre.bytes) + ins_size - rep_size
            /\ series.length = pre.length + ins_len - part
            /\ SubSeq(series.bytes, 1, off) = SubSeq(pre.bytes, 1, off)
            /\ SubSeq(series.bytes, off + ins_size + 1, Len(series.bytes))
                   = SubSeq(pre.bytes, off + rep_size + 1, Len(pre.bytes))
            /\ ~S.alias =>
                   \A k \in 1 .. ins_size :
                       series.bytes[off + k] = one[((k - 1) % Len(one)) + 1]
            /\ last.index = p + ins_len

\* the two-byte codepoint of "Aé" changed to the one-byte char "B"
ChangeNarrowerWitness ==
    /\ last.op = "ModifyString" /\ last.fail = ""
    /\ ~last.dst.binary /\ last.dst.index = 1
    /\ last.verb = "change" /\ last.dups = 1 /\ last.flags = {}
    /\ last.pre.bytes = <<65, 195, 169>>
    /\ last.src.kind = "char" /\ last.src.bytes = <<66>>
    /\ series.bytes = <<65, 66>>
    /\ series.length = 2

\* the shape of an accepted cell that C37 states, but for the agreement of
\* the context's type tag and archetype with the cell
AcceptedShape(v) ==
    LET label == CaseLabel(v.kind)
    IN  /\ label = "REB_OBJECT" =>
               /\ (v.phase # "null") <=> (v.kind = "REB_FRAME")
               /\ v.phase # "unmarked"
        /\ label = "REB_WORD" =>
               IF v.binding # "unbound" THEN v.index > 0 ELSE v.index = -1
        /\ label = "REB_PATH" =>
               /\ Len(v.items) >= 2
               /\ \A i \in 1 .. Len(v.items) : ~ANY_PATH_KIND(v.items[i])
        /\ label \notin NodelessCases => v.marked

RECURSIVE ScannedWords(_, _)
ScannedWords(head, deep) ==
    IF head = <<>> THEN <<>>
    ELSE LET value == Head(head)
             here == IF ANY_WORD(value) THEN <<value>>
                     ELSE IF ANY_EVAL_BLOCK(value) /\ deep
                     THEN ScannedWords(value.sub, deep)
                     ELSE <<>>
         IN  here \o ScannedWords(Tail(head), deep)

\* the symbols of the words that may create a key, each canon symbol once,
\* at its first occurrence, but for the canons in `seen`
RECURSIVE FirstOccurrences(_, _, _)
FirstOccurrences(words, any_word, seen) ==
    IF words = <<>> THEN <<>>
    ELSE LET w == Head(words)
             canon == VAL_WORD_CANON(w)
         IN  IF (IS_SET_WORD(w) \/ any_word) /\ canon \notin seen
             THEN <<VAL_WORD_SYM(w)>>
                      \o FirstOccurrences(Tail(words), any_word,
                                          seen \cup {canon})
             ELSE FirstOccurrences(Tail(words), any_word, seen)

\* C38: a Collect_Keylist_Managed call that returns gives a key list that
\* holds, after the root key, the forced self key (when the self flag is set
\* and no prior has one) and the prior's keys, one key per distinct canon
\* symbol of the scanned words in order of first occurrence: only set-words
\* create keys unless COLLECT_ANY_WORD is set, nested blocks are scanned only
\* with COLLECT_DEEP, and a symbol already present (in the prior, as the
\* forced self key, or by an earlier occurrence) never creates a second key.
KeyScanRecordsFirstOccurrences ==
    (last.op = "CollectKeylist" /\ ~last.failed) =>
        LET P == last.pre
            keys == last.result[1].keys
            prior_syms ==
                IF last.prior = NULL THEN <<>>
                ELSE [n \in 1 .. CTX_LEN(P, last.prior) |->
                         CTX_KEY(P, last.prior, n).sym]
            forced ==
                /\ COLLECT_ENSURE_SELF \in last.flags
                /\ \A n \in 1 .. Len(prior_syms) :
                       SYMBOL_TO_CANON(prior_syms[n]) # SYM_SELF
            base == (IF forced THEN <<SYM_SELF>> ELSE <<>>) \o prior_syms
            seen == {SYMBOL_TO_CANON(base[n]) : n \in 1 .. Len(base)}
            new == FirstOccurrences(
                       ScannedWords(last.head, COLLECT_DEEP \in last.flags),
                       COLLECT_ANY_WORD \in last.flags, seen)
        IN  /\ [n \in 1 .. Len(keys) - 1 |-> keys[n + 1].sym] = base \o new
            /\ \A i, j \in 2 .. Len(keys) :
                   i # j => VAL_TYPESET_CANON(keys[i])
                                # VAL_TYPESET_CANON(keys[j])

\* a deep scan, for set-words only, of a block that repeats a set-word in a
\* nested block after a plain word and a set-word of another symbol
KeyScanWitness ==
    /\ last.op = "CollectKeylist" /\ ~last.failed
    /\ last.prior = NULL
    /\ last.flags = {COLLECT_DEEP}
    /\ last.head = <<SetWord(4), Block(<<Word(3), SetWord(5), SetWord(4)>>)>>
    /\ [n \in 1 .. 2 |-> last.result[1].keys[n + 1].sym] = <<4, 5>>
    /\ Len(last.result[1].keys) = 3

\* ====================================================== SpecConstruct
\* one Construct_Context call on a sequence of up to MaxItems items, without
\* a parent or with a parent that has a self key or none and a locked key or
\* none
MaxConstructOps == 1
MaxItems == 4

\* the cell that COPY_VALUE stores for an item
ItemValue(item) ==
    CASE item.it = "integer" -> IntVal(item.sym)
      [] item.it = "block" -> BlockVal(1, 0)
      [] OTHER -> MkVal(item.it, "", item.sym, 0)

\* GET_MUTABLE_VAR_MAY_FAIL of a word that Bind_Values_Shallow has bound to
\* `context`: the index of the variable of the word's canon symbol, 0 when
\* its key is locked
GET_MUTABLE_VAR_MAY_FAIL(H, context, word) ==
    LET index == Find_Word_In_Context(H, context, VAL_WORD_SYM(word), TRUE)
    IN  IF CTX_KEY(H, context, index).locked THEN 0 ELSE index

\* how a Construct_Context call that made the context M ends
ConstructEnds(M, fail) ==
    [H |-> M.H, C |-> M.C, context |-> M.context, fail |-> fail]

\* the loop over the pairs from item `k` on, with the context that
\* Make_Selfish_Context_Detect returned
RECURSIVE ConstructLoop(_, _, _, _)
ConstructLoop(M, head, k, debug) ==
    IF k >= Len(head) THEN ConstructEnds(M, "")
    ELSE IF ~IS_SET_WORD(head[k + 1]) THEN ConstructEnds(M, "invalid-type")
    ELSE IF k + 1 >= Len(head) THEN ConstructEnds(M, "missing-value")
    ELSE IF debug /\ IS_SET_WORD(head[k + 2]) THEN ConstructEnds(M, "assert")
    ELSE IF GET_MUTABLE_VAR_MAY_FAIL(M.H, M.context, head[k + 1]) = 0
    THEN ConstructEnds(M, "locked")
    ELSE ConstructLoop(
             [M EXCEPT !.H.ctxs[M.context].vars[
                           GET_MUTABLE_VAR_MAY_FAIL(M.H, M.context,
                                                    head[k + 1]) + 1] =
                           ItemValue(head[k + 2])],
             head, k + 2, debug)

\* Construct_Context: [H, C, context, fail].  `debug` says that the build
\* has assertions.  Bind_Values_Shallow leaves the Binding Table as it found
\* it.
Construct_Context(H, C0, kind, head, opt_parent, debug) ==
    ConstructLoop(
        Make_Selfish_Context_Detect(H, C0, kind, NULL, head, opt_parent),
        head, 0, debug)

DoConstruct(kind, head, opt_parent, debug) ==
    /\ Step
    /\ BindTableEmpty(binds) /\ buf = <<>>
    /\ \E R \in {Construct_Context(Heap, Coll, kind, head, opt_parent,
                                   debug)} :
           /\ SetHeap(R.H)
           /\ SetColl(R.C)
           /\ hist' = Append(Untouched(hist, {opt_parent}),
                             [fresh |-> FALSE, log |-> <<>>])
           /\ last' = [op |-> "Construct", kind |-> kind, head |-> head,
                       parent |-> opt_parent, debug |-> debug,
                       ctx |-> R.context, fail |-> R.fail, pre |-> Heap]

ConstructItems ==
    {SetWord(2), SetWord(3), SetWord(5), SetWord(SYM_SELF), Word(3),
     IntItem(7)}

ConstructHeads ==
    UNION {[1 .. n -> ConstructItems] : n \in 0 .. MaxItems}

InitConstruct ==
    \E H \in StartHeaps({CollectShape(FALSE)}, {CollectShape(TRUE)},
                        {FALSE}),
       lock \in 0 .. 2 :
        InitFrom(IF lock \in 1 .. CTX_LEN(H, 1)
                 THEN [H EXCEPT !.kls[CTX_KEYLIST(H, 1)].keys[lock + 1].locked
                                    = TRUE]
                 ELSE H,
                 MaxConstructOps)

NextConstruct ==
    /\ nops < budget
    /\ \E head \in ConstructHeads, opt_parent \in {NULL} \cup ValidCtxs,
          debug \in BOOLEAN :
           DoConstruct("object", head, opt_parent, debug)

SpecConstruct == InitConstruct /\ [][NextConstruct]_vars

\* C39: Construct_Context over a sequence of items fails with the
\* invalid-type error if an item at an even position (0, 2, 4, ...) is not a
\* set-word, and with the missing-value error if a set-word at an even
\* position is the last item; otherwise it returns a context in which the
\* variable of each set-word at an even position holds the item that follows
\* it (the last such item for a symbol that is set more than once); the
\* Binding Table is all-zero and the Collection Buffer empty on every
\* outcome.
ConstructPairsOrFails ==
    last.op = "Construct" =>
        LET head == last.head
            evens == {k \in 0 .. Len(head) - 1 : k % 2 = 0}
            Last(k) == \A j \in evens :
                           j > k => VAL_WORD_CANON(head[j + 1])
                                        # VAL_WORD_CANON(head[k + 1])
        IN  /\ IF \E k \in evens : ~IS_SET_WORD(head[k + 1])
               THEN last.fail = "invalid-type"
               ELSE IF Len(head) % 2 = 1
               THEN last.fail = "missing-value"
               ELSE /\ last.fail = ""
                    /\ \A k \in evens :
                           Last(k) =>
                               CTX_VAR(Heap, last.ctx,
                                       Find_Word_In_Context(
                                           Heap, last.ctx,
                                           VAL_WORD_SYM(head[k + 1]), TRUE))
                                   = ItemValue(head[k + 2])
            /\ BindTableEmpty(binds)
            /\ buf = <<>>

====
